---- MODULE Spec2Model ----
(***************************************************************************)
(* GaNDLF-Synth: the inference orchestrator (inference_manager.py) and the *)
(* training-step state machines of the two adversarial modules             *)
(* (dcgan_module.py, stylegan_module.py).                                  *)
(*                                                                         *)
(* Seven specifications share the variables below:                         *)
(*   SpecDir     _prepare_output_directory over arbitrary file systems     *)
(*   SpecRace    two processes inside _prepare_output_directory at once    *)
(*   SpecInf     InferenceManager.__init__ followed by run_inference       *)
(*   SpecTrain   a training run of the DCGAN or the StyleGAN module,       *)
(*               followed by predict_step calls                            *)
(*   SpecPreview training runs over the range of preview settings          *)
(*   SpecFaults  training runs in which an operation of a step may raise   *)
(*   SpecModule  configure_optimizers, validation_step, test_step and      *)
(*               predict_step called on a module before or after its fit   *)
(* A specification leaves the variables of the others at their initial     *)
(* values.                                                                 *)
(***************************************************************************)
EXTENDS Integers, Sequences, FiniteSets, TLC

VARIABLES
    fs,          \* the directories that exist (a set of paths)
    fs0,         \* the directories that existed before the first request
    dir_calls,   \* the _prepare_output_directory calls made so far, in order
    procs,       \* the processes inside _prepare_output_directory at once
    cfg,         \* global_config and model_config of the InferenceManager
    mgr,         \* the InferenceManager: "none", "ready", "failed" or "done"
    out_dir,     \* InferenceManager.output_dir (NoPath until it is set)
    ctor_trace,  \* what __init__ did, in order
    calls,       \* the module.inference_step calls of run_inference, in order
    saved,       \* the save_single_image calls of run_inference, in order
    arch,        \* the module being trained: "dcgan", "stylegan" or "none"
    tcfg,        \* model_config, trainer and dataloader settings of the run
    phase,       \* the trainer: "init", "training", "failed" or "done"
    current_epoch,  \* trainer.current_epoch
    batch_idx,   \* the index of the next batch of the current epoch
    alpha,       \* StyleGAN: self.alpha, a float: [value, rounded], see Exactly
    current_step,   \* StyleGAN: self.current_step, the stage index
    current_epoch_in_progressive_epoch,  \* StyleGAN: epochs done in the stage
    train_loss_list,  \* self.train_loss_list
    transforms,  \* StyleGAN: trainer.train_dataloader.dataset.transforms
    opt,         \* how often each optimizer was stepped and zeroed
    last_step,   \* the last training_step call: its batch and what it did
    total_batches,  \* the training_step calls made so far
    preview,     \* the fixed-seed images saved by the last on_train_epoch_end
    rng,         \* torch's default generators: the state of each device's
    last_call    \* the last direct call of a module method and its outcome

inf_vars == <<cfg, mgr, out_dir, ctor_trace, calls, saved>>
dir_vars == <<fs, fs0, dir_calls, procs>>
train_vars == <<arch, tcfg, phase, current_epoch, batch_idx, alpha, current_step,
                current_epoch_in_progressive_epoch, train_loss_list, transforms,
                opt, last_step, total_batches, preview, rng, last_call>>
vars == <<fs, fs0, dir_calls, procs, cfg, mgr, out_dir, ctor_trace, calls, saved,
          arch, tcfg, phase, current_epoch, batch_idx, alpha, current_step,
          current_epoch_in_progressive_epoch, train_loss_list, transforms,
          opt, last_step, total_batches, preview, rng, last_call>>

----------------------------------------------------------------------------
(* Bounds of the model.                                                    *)

MaxIndex == 2      \* pre-existing suffixed directories carry suffixes 1..MaxIndex
MaxRequests == 3   \* _prepare_output_directory calls in one behaviour of SpecDir
MaxImages == 4     \* n_images_to_generate counts range up to MaxImages
MaxBatchSize == 3  \* global_config["batch_size"] ranges over 1..MaxBatchSize

----------------------------------------------------------------------------
(* Small helpers.                                                          *)

Range(s) == {s[i] : i \in 1..Len(s)}

RECURSIVE SumSeq(_)
SumSeq(s) == IF s = <<>> THEN 0 ELSE Head(s) + SumSeq(Tail(s))

\* The concatenation of a sequence of sequences.
RECURSIVE Flatten(_)
Flatten(ss) == IF ss = <<>> THEN <<>> ELSE Head(ss) \o Flatten(Tail(ss))

Prefixes(s) == {SubSeq(s, 1, n) : n \in 1..Len(s)}

----------------------------------------------------------------------------
(* Paths.  A path is the output directory (a sequence of components) and,  *)
(* for an inference output directory below it, the leaf name               *)
(* "<base>_inference_output" or "<base>_inference_output_<idx>"; idx = 0   *)
(* stands for the name without a suffix.                                   *)

OutputDirs == {<<"o">>, <<"o", "p">>}
ModelDirs == {<<"m1">>, <<"runs", "m1">>}

DirPath(d) == [out |-> d, leaf |-> FALSE, base |-> "", idx |-> 0]
LeafPath(d, b, k) == [out |-> d, leaf |-> TRUE, base |-> b, idx |-> k]
NoPath == [out |-> <<>>, leaf |-> FALSE, base |-> "", idx |-> 0]

\* os.path.basename(model_dir)
Basename(model_dir) == model_dir[Len(model_dir)]

\* _prepare_out_dir_path: join(output_dir, basename(model_dir) + "_inference_output")
PrepareOutDirPath(output_dir, model_dir) ==
    LeafPath(output_dir, Basename(model_dir), 0)

\* f"{model_inference_output_path}_{index}"
WithIndex(p, index) == [p EXCEPT !.idx = index]

\* os.path.exists
Exists(fsys, p) == p \in fsys

\* The directories above p: every nonempty prefix of the output directory
\* (the output directory itself for a leaf, its parents for a directory).
Ancestors(p) ==
    {DirPath(d) : d \in IF p.leaf THEN Prefixes(p.out)
                        ELSE Prefixes(p.out) \ {p.out}}

\* os.makedirs(p): creates p and every missing directory above it.
Makedirs(fsys, p) == fsys \cup {p} \cup Ancestors(p)

\* The while loop of _prepare_output_directory: the first index >= 1 whose
\* name does not exist.
FirstFreeIndexNoLoop(fsys, p) == 1
FirstFreeIndexAfterLast(fsys, p) ==
    CHOOSE k \in 1..(Cardinality(fsys) + 1) :
        /\ ~Exists(fsys, WithIndex(p, k))
        /\ \A j \in (k + 1)..(Cardinality(fsys) + 1) : ~Exists(fsys, WithIndex(p, j))
        /\ k = 1 \/ Exists(fsys, WithIndex(p, k - 1))
FirstFreeIndex(fsys, p) ==
    CHOOSE k \in 1..(Cardinality(fsys) + 1) :
        /\ ~Exists(fsys, WithIndex(p, k))
        /\ \A j \in 1..(k - 1) : Exists(fsys, WithIndex(p, j))

\* _prepare_output_directory: the path it returns
PreparedPath(fsys, output_dir, model_dir) ==
    LET p == PrepareOutDirPath(output_dir, model_dir)
    IN  IF ~Exists(fsys, p) THEN p
        ELSE WithIndex(p, FirstFreeIndex(fsys, p))

\* _prepare_output_directory: the file system it leaves
PreparedFs(fsys, output_dir, model_dir) ==
    Makedirs(fsys, PreparedPath(fsys, output_dir, model_dir))

----------------------------------------------------------------------------
(* SpecDir: any number of _prepare_output_directory calls on a file system *)
(* that starts with any consistent set of directories.                     *)

Universe ==
    {DirPath(d) : d \in UNION {Prefixes(o) : o \in OutputDirs}}
    \cup {LeafPath(d, Basename(m), k) :
            d \in OutputDirs, m \in ModelDirs, k \in 0..MaxIndex}

\* A directory exists only below existing directories.
Consistent(fsys) == \A p \in fsys : Ancestors(p) \subseteq fsys

\* The processes that may be inside _prepare_output_directory at the same
\* time; none of them is in SpecDir, SpecInf and the training runs.
Procs == {1, 2}
IdleProc ==
    [pc |-> "idle", base |-> NoPath, index |-> 0, path |-> NoPath, depth |-> 0]
NoProcs == [p \in Procs |-> IdleProc]

\* self.alpha is a float.  value is the number it stands for, as a fraction.
\* rounded tells whether the float arithmetic that produced it was inexact:
\* a rounded alpha is a float within the rounding error of value, and one
\* with value 1 is below 1.0 (what rounding brings to 1.0 or above is 1.0
\* after the clamp).  The values of a run differ by far more than the
\* rounding error, so comparisons of different values are not affected.
Exactly(f) == [value |-> f, rounded |-> FALSE]
Rounded(f) == [value |-> f, rounded |-> TRUE]

\* A fraction of small integers in lowest terms is a float exactly when its
\* denominator is a power of two; sums of such floats are exact.
RECURSIVE IsPowerOfTwo(_)
IsPowerOfTwo(n) == n = 1 \/ (n % 2 = 0 /\ IsPowerOfTwo(n \div 2))
IsFloat(f) == IsPowerOfTwo(f[2])

\* No module is being trained.
NoStep == [batch_idx |-> 0, batch_size |-> 0, skipped |-> FALSE, trace |-> <<>>]
NoPreview == [made |-> FALSE, epoch |-> 0, stage |-> 0, alpha |-> <<0, 1>>,
              sizes |-> <<>>, indices |-> <<>>, latents |-> <<>>]
\* The generators before anything was drawn or seeded.
FreshRng == [cpu |-> 0, cuda |-> 0]
NoCall == [op |-> "none", error |-> "none", out |-> <<>>]
NoGradients == [grad |-> <<>>, applied |-> <<>>]
NoOpt == [disc_step |-> 0, disc_zero_grad |-> 0, gen_step |-> 0,
          gen_zero_grad |-> 0, disc |-> NoGradients, gen |-> NoGradients]
TrainIdle ==
    /\ arch = "none"
    /\ tcfg = [none |-> TRUE]
    /\ phase = "init"
    /\ current_epoch = 0
    /\ batch_idx = 0
    /\ alpha = Exactly(<<0, 1>>)
    /\ current_step = 0
    /\ current_epoch_in_progressive_epoch = 0
    /\ train_loss_list = <<>>
    /\ transforms = [none |-> TRUE, items |-> <<>>]
    /\ opt = NoOpt
    /\ last_step = NoStep
    /\ total_batches = 0
    /\ preview = NoPreview
    /\ rng = FreshRng
    /\ last_call = NoCall

InfInit ==
    /\ cfg = [none |-> TRUE]
    /\ mgr = "none"
    /\ out_dir = NoPath
    /\ ctor_trace = <<>>
    /\ calls = <<>>
    /\ saved = <<>>

InitDir ==
    /\ fs \in {f \in SUBSET Universe : Consistent(f)}
    /\ fs0 = fs
    /\ dir_calls = <<>>
    /\ procs = NoProcs
    /\ InfInit
    /\ TrainIdle

PrepareOutputDirectory(output_dir, model_dir) ==
    /\ Len(dir_calls) < MaxRequests
    /\ fs' = PreparedFs(fs, output_dir, model_dir)
    /\ dir_calls' = Append(dir_calls,
            [out |-> output_dir, model |-> model_dir,
             path |-> PreparedPath(fs, output_dir, model_dir),
             before |-> fs])
    /\ UNCHANGED <<fs0, procs, inf_vars, train_vars>>

NextDir ==
    \E o \in OutputDirs, m \in ModelDirs : PrepareOutputDirectory(o, m)

SpecDir == InitDir /\ [][NextDir]_vars

\* The file system a call left behind: what the next call found, or fs.
FsAfter(i) == IF i < Len(dir_calls) THEN dir_calls[i + 1].before ELSE fs

\* The calls made for one output directory and one model directory, in order.
CallsFor(o, m) ==
    SelectSeq(dir_calls, LAMBDA c : c.out = o /\ c.model = m)

(* C5, as stated: for any set of directories already present, the call     *)
(* returns a path that did not exist before, creates exactly that one      *)
(* directory and leaves every directory that existed in place.             *)
C5_CreatesExactlyOne ==
    \A i \in 1..Len(dir_calls) :
        LET c == dir_calls[i] IN
        /\ c.path \notin c.before
        /\ FsAfter(i) \ c.before = {c.path}
        /\ c.before \subseteq FsAfter(i)

(* C5, amended: the call returns a path that did not exist before, creates *)
(* that directory together with the missing directories above it (the      *)
(* output directory and its parents, which os.makedirs creates as well)    *)
(* and nothing else, and leaves every directory that existed in place.     *)
C5_CreatesFreshWithParents ==
    \A i \in 1..Len(dir_calls) :
        LET c == dir_calls[i] IN
        /\ c.path \notin c.before
        /\ c.path.leaf /\ c.path.out = c.out
        /\ FsAfter(i) \ c.before =
              ({c.path} \cup {DirPath(d) : d \in Prefixes(c.out)}) \ c.before
        /\ c.before \subseteq FsAfter(i)

\* A call that found the unsuffixed name and suffix 1 taken, and one that
\* found its output directory missing.
C5_Witness ==
    /\ \E i \in 1..Len(dir_calls) :
          /\ dir_calls[i].path.idx = 2
          /\ WithIndex(dir_calls[i].path, 1) \in dir_calls[i].before
    /\ \E i \in 1..Len(dir_calls) :
          DirPath(dir_calls[i].out) \notin dir_calls[i].before

(* C6, as stated: the requests made for one output directory and one model *)
(* directory yield pairwise distinct directories that all exist afterwards *)
(* and differ only in the numeric suffix; the first is the unsuffixed      *)
(* <basename>_inference_output and each later one carries the smallest     *)
(* suffix k >= 1 whose name was free when it was requested.                *)
C6_FirstIsUnsuffixed ==
    \A o \in OutputDirs, m \in ModelDirs :
        LET cs == CallsFor(o, m)
            base == LeafPath(o, Basename(m), 0)
        IN  /\ \A i, j \in 1..Len(cs) : i # j => cs[i].path # cs[j].path
            /\ \A i \in 1..Len(cs) :
                  /\ cs[i].path \in fs
                  /\ WithIndex(cs[i].path, 0) = base
            /\ Len(cs) >= 1 => cs[1].path = base
            /\ \A i \in 2..Len(cs) :
                  LET k == cs[i].path.idx IN
                  /\ k >= 1
                  /\ WithIndex(base, k) \notin cs[i].before
                  /\ \A j \in 1..(k - 1) : WithIndex(base, j) \in cs[i].before

(* C6, amended: the requests made for one output directory and one model   *)
(* directory yield pairwise distinct directories that all exist afterwards *)
(* and differ only in the numeric suffix; the first is the unsuffixed      *)
(* <basename>_inference_output when that name is free at the first request *)
(* (otherwise the first, too, carries the smallest free suffix k >= 1),    *)
(* and each later one carries the smallest suffix k >= 1 whose name was    *)
(* free when it was requested.                                             *)
C6_DistinctSuffixedDirectories ==
    \A o \in OutputDirs, m \in ModelDirs :
        LET cs == CallsFor(o, m)
            base == LeafPath(o, Basename(m), 0)
        IN  /\ \A i, j \in 1..Len(cs) : i # j => cs[i].path # cs[j].path
            /\ \A i \in 1..Len(cs) :
                  /\ cs[i].path \in fs
                  /\ WithIndex(cs[i].path, 0) = base
            /\ \A i \in 1..Len(cs) :
                  LET k == cs[i].path.idx IN
                  IF i = 1 /\ base \notin cs[1].before
                  THEN cs[1].path = base
                  ELSE /\ k >= 1
                       /\ WithIndex(base, k) \notin cs[i].before
                       /\ \A j \in 1..(k - 1) :
                              WithIndex(base, j) \in cs[i].before

\* Three requests for the same directories on a file system where the
\* unsuffixed name and suffix 2 were already taken: the three results are
\* suffix 1, suffix 3 and suffix 4.
C6_Witness ==
    \E o \in OutputDirs, m \in ModelDirs :
        LET cs == CallsFor(o, m) IN
        /\ Len(cs) = 3
        /\ LeafPath(o, Basename(m), 0) \in fs0
        /\ LeafPath(o, Basename(m), 1) \notin fs0
        /\ LeafPath(o, Basename(m), 2) \in fs0
        /\ cs[1].path.idx = 1 /\ cs[2].path.idx = 3 /\ cs[3].path.idx = 4


----------------------------------------------------------------------------
(* The InferenceManager.                                                   *)
(*                                                                         *)
(* cfg holds what the manager reads of global_config and model_config:     *)
(*   paradigm         model_config.labeling_paradigm                       *)
(*   n_dimensions     model_config.n_dimensions                            *)
(*   has_batch_size,  global_config.get("batch_size", 1)                   *)
(*   batch_size                                                            *)
(*   has_params       global_config.get("inference_parameters") is a dict  *)
(*   n_images         inference_parameters["n_images_to_generate"]:        *)
(*                    kind "missing" (no such key), "int" (val), "other"   *)
(*                    (a value that is neither an int nor a dict) or       *)
(*                    "dict" (items: the entries in iteration order, each  *)
(*                    a class label with a value of kind "int" or "other") *)

Labels == {0, 1}

IntValue(n) == [kind |-> "int", val |-> n, items |-> <<>>]
MissingValue == [kind |-> "missing", val |-> 0, items |-> <<>>]
OtherValue == [kind |-> "other", val |-> 0, items |-> <<>>]
DictValue(items) == [kind |-> "dict", val |-> 0, items |-> items]

ItemValues ==
    {[kind |-> "int", val |-> n] : n \in 0..MaxImages}
    \cup {[kind |-> "other", val |-> 0]}

\* The dicts over Labels: keys are pairwise distinct, iteration follows
\* insertion order.
Items == {[label |-> l, value |-> v] : l \in Labels, v \in ItemValues}
DictItems ==
    {<<>>}
    \cup {<<a>> : a \in Items}
    \cup {s \in {<<a, b>> : a \in Items, b \in Items} : s[1].label # s[2].label}

NImagesValues ==
    {MissingValue, OtherValue}
    \cup {IntValue(n) : n \in (-1)..MaxImages}
    \cup {DictValue(items) : items \in DictItems}

Configs ==
    {[paradigm |-> "unlabeled", n_dimensions |-> 2, has_batch_size |-> FALSE,
      batch_size |-> 0, has_params |-> FALSE, n_images |-> MissingValue]}
    \cup [paradigm : {"unlabeled", "labeled"},
          n_dimensions : {2, 3},
          has_batch_size : {TRUE},
          batch_size : 1..MaxBatchSize,
          has_params : {TRUE},
          n_images : NImagesValues]
    \cup [paradigm : {"unlabeled", "labeled"},
          n_dimensions : {2},
          has_batch_size : {FALSE},
          batch_size : {0},
          has_params : {TRUE},
          n_images : {IntValue(2), DictValue(<<[label |-> 1, value |-> [kind |-> "int", val |-> 2]]>>)}]

\* self.global_config.get("batch_size", 1)
BatchSize(c) == IF c.has_batch_size THEN c.batch_size ELSE 1

\* _validate_inference_config: TRUE when no assertion fails and nothing raises.
\* inference_config is None without "inference_parameters", and
\* None.keys() raises.
ValidateInferenceConfig(c) ==
    /\ c.has_params
    /\ c.n_images.kind # "missing"
    /\ IF c.paradigm = "unlabeled"
       THEN /\ c.n_images.kind = "int"
            /\ c.n_images.val > 0
       ELSE /\ c.n_images.kind = "dict"
            /\ \A i \in 1..Len(c.n_images.items) :
                  /\ c.n_images.items[i].value.kind = "int"
                  /\ c.n_images.items[i].value.val > 0

\* The steps of __init__ after the output directory is prepared.
CtorStepsFactoryFirst(c) ==
    IF ValidateInferenceConfig(c)
    THEN <<"get_module", "load_checkpoint", "validate_inference_config",
           "prepare_logger", "model_eval">>
    ELSE <<"get_module", "load_checkpoint", "validate_inference_config">>
CtorSteps(c) ==
    IF ValidateInferenceConfig(c)
    THEN <<"validate_inference_config", "prepare_logger", "get_module",
           "load_checkpoint", "model_eval">>
    ELSE <<"validate_inference_config">>

\* _determine_n_batches: <<n_batches, remainder>>
DetermineNBatchesFloor(n_images_to_generate, batch_size) ==
    <<n_images_to_generate \div batch_size, n_images_to_generate % batch_size>>
DetermineNBatches(n_images_to_generate, batch_size) ==
    LET n_batches == n_images_to_generate \div batch_size
        remainder == n_images_to_generate % batch_size
    IN  <<IF remainder > 0 THEN n_batches + 1 ELSE n_batches, remainder>>

\* The size requested in iteration i (from 0) of the generation loop.
NImagesBatch(i, n_batches, remainder, batch_size) ==
    IF remainder > 0 /\ i = n_batches - 1 THEN remainder ELSE batch_size

\* module.inference_step: a batch of n generated images in channel-first
\* layout; the sample at position j of call number c is <<c, j>>.
InferenceStep(c, n, n_dimensions) ==
    [axes |-> IF n_dimensions = 2 THEN <<"N", "C", "H", "W">>
              ELSE <<"N", "C", "H", "W", "D">>,
     samples |-> [j \in 1..n |-> <<c, j>>]]

\* Tensor.permute(dims), dims counted from 0.
Permute(t, dims) ==
    [t EXCEPT !.axes = [k \in 1..Len(dims) |-> t.axes[dims[k] + 1]]]

\* _prepare_images_for_saving
PrepareImagesForSavingUnpermuted(t, n_dimensions) == t
PrepareImagesForSaving(t, n_dimensions) ==
    IF n_dimensions = 2 THEN Permute(t, <<0, 2, 3, 1>>)
    ELSE IF n_dimensions = 3 THEN Permute(t, <<0, 2, 3, 4, 1>>)
    ELSE t

\* Iterating over an array walks its first axis.
Enumerate(t) == IF t.axes[1] = "N" THEN t.samples ELSE <<>>

\* f"generated_image_{index}" or f"generated_image_{index}_class_{label}"
\* below the manager's output directory.
ImagePath(dir, index, tagged, label) ==
    [dir |-> dir, index |-> index, tagged |-> tagged, class |-> label]

\* The index of sample j (from 0) of batch i (from 0).
ImageIndexByBatchLength(i, j, batch_size, n_images_batch) == i * n_images_batch + j
ImageIndex(i, j, batch_size, n_images_batch) == i * batch_size + j

\* The generation loop for one count: the inference_step calls it makes and
\* the save_single_image calls that follow each of them.  first is the
\* number of inference_step calls made before the loop.
LoopCalls(n_images_to_generate, batch_size, tagged, label) ==
    LET nb == DetermineNBatches(n_images_to_generate, batch_size)
    IN  [k \in 1..nb[1] |->
            [n |-> NImagesBatch(k - 1, nb[1], nb[2], batch_size),
             labeled |-> tagged, class_label |-> label]]

LoopSaves(n_images_to_generate, batch_size, tagged, label, first, c) ==
    LET nb == DetermineNBatches(n_images_to_generate, batch_size)
        batch(k) ==
            LET n == NImagesBatch(k - 1, nb[1], nb[2], batch_size)
                generated_images ==
                    PrepareImagesForSaving(
                        InferenceStep(first + k, n, c.n_dimensions),
                        c.n_dimensions)
                images == Enumerate(generated_images)
            IN  [j \in 1..Len(images) |->
                    [image |-> images[j],
                     layout |-> Tail(generated_images.axes),
                     path |-> ImagePath(out_dir,
                                        ImageIndex(k - 1, j - 1, batch_size, n),
                                        tagged, label)]]
    IN  Flatten([k \in 1..nb[1] |-> batch(k)])

\* _unlabeled_inference
UnlabeledCalls(c) == LoopCalls(c.n_images.val, BatchSize(c), FALSE, 0)
UnlabeledSaves(c) == LoopSaves(c.n_images.val, BatchSize(c), FALSE, 0, 0, c)

\* _labeled_inference: the loop, once per entry of the dict, in its order.
RECURSIVE LabeledCallsFrom(_, _)
LabeledCallsFrom(c, i) ==
    IF i > Len(c.n_images.items) THEN <<>>
    ELSE LoopCalls(c.n_images.items[i].value.val, BatchSize(c), TRUE,
                   c.n_images.items[i].label)
         \o LabeledCallsFrom(c, i + 1)

RECURSIVE LabeledSavesFrom(_, _, _)
LabeledSavesFrom(c, i, first) ==
    IF i > Len(c.n_images.items) THEN <<>>
    ELSE LET item == c.n_images.items[i]
             n == Len(LoopCalls(item.value.val, BatchSize(c), TRUE, item.label))
         IN  LoopSaves(item.value.val, BatchSize(c), TRUE, item.label, first, c)
             \o LabeledSavesFrom(c, i + 1, first + n)

LabeledCallsSharedRemainder(c) ==
    LET total == SumSeq([i \in 1..Len(c.n_images.items) |->
                            c.n_images.items[i].value.val])
        label == IF c.n_images.items = <<>> THEN 0 ELSE c.n_images.items[1].label
    IN  LoopCalls(total, BatchSize(c), TRUE, label)
LabeledCalls(c) == LabeledCallsFrom(c, 1)
LabeledSaves(c) == LabeledSavesFrom(c, 1, 0)

----------------------------------------------------------------------------
(* SpecInf: one InferenceManager is constructed and, when the constructor  *)
(* succeeds, run_inference is called on it.                                *)

TheOutputDir == <<"o">>
TheModelDir == <<"runs", "m1">>

InitInf ==
    /\ fs \in {{}, {DirPath(TheOutputDir)},
               {DirPath(TheOutputDir), LeafPath(TheOutputDir, "m1", 0)}}
    /\ fs0 = fs
    /\ dir_calls = <<>>
    /\ procs = NoProcs
    /\ cfg \in Configs
    /\ mgr = "none"
    /\ out_dir = NoPath
    /\ ctor_trace = <<>>
    /\ calls = <<>>
    /\ saved = <<>>
    /\ TrainIdle

\* InferenceManager.__init__
Construct ==
    /\ mgr = "none"
    /\ out_dir' = PreparedPath(fs, TheOutputDir, TheModelDir)
    /\ fs' = PreparedFs(fs, TheOutputDir, TheModelDir)
    /\ ctor_trace' = <<"prepare_output_directory">> \o CtorSteps(cfg)
    /\ mgr' = IF ValidateInferenceConfig(cfg) THEN "ready" ELSE "failed"
    /\ UNCHANGED <<fs0, dir_calls, procs, cfg, calls, saved, train_vars>>

\* run_inference
RunInference ==
    /\ mgr = "ready"
    /\ IF cfg.paradigm = "unlabeled"
       THEN /\ calls' = UnlabeledCalls(cfg)
            /\ saved' = UnlabeledSaves(cfg)
       ELSE /\ calls' = LabeledCalls(cfg)
            /\ saved' = LabeledSaves(cfg)
    /\ mgr' = "done"
    /\ UNCHANGED <<dir_vars, cfg, out_dir, ctor_trace, train_vars>>

NextInf == Construct \/ RunInference

SpecInf == InitInf /\ [][NextInf]_vars

\* ceil(n / b) for n >= 0 and b >= 1
CeilDiv(n, b) == (n + b - 1) \div b

\* The batch sizes that cover n samples with batches of b: all b, except a
\* final remainder.
ExpectedSizes(n, b) ==
    [i \in 1..CeilDiv(n, b) |->
        IF i < CeilDiv(n, b) THEN b ELSE n - (CeilDiv(n, b) - 1) * b]

Sizes(cs) == [i \in 1..Len(cs) |-> cs[i].n]

(* C1: for a count N >= 1 and a batch size B >= 1, unlabeled inference     *)
(* issues exactly ceil(N/B) inference_step calls whose sizes sum to N;     *)
(* every call but the last asks for B, and no call asks for 0 or for more  *)
(* than B.                                                                 *)
C1_UnlabeledBatches ==
    (mgr = "done" /\ cfg.paradigm = "unlabeled") =>
        LET N == cfg.n_images.val
            B == BatchSize(cfg)
        IN  /\ N >= 1 /\ B >= 1
            /\ Len(calls) = CeilDiv(N, B)
            /\ SumSeq(Sizes(calls)) = N
            /\ \A i \in 1..(Len(calls) - 1) : calls[i].n = B
            /\ \A i \in 1..Len(calls) :
                  calls[i].n >= 1 /\ calls[i].n <= B /\ ~calls[i].labeled

\* Four images in batches of three: a full batch and a remainder of one.
C1_Witness ==
    /\ mgr = "done" /\ cfg.paradigm = "unlabeled"
    /\ cfg.n_images.val = 4 /\ BatchSize(cfg) = 3
    /\ Sizes(calls) = <<3, 1>>

(* C2: labeled inference repeats the splitting per class label: for each   *)
(* class c with count N_c exactly ceil(N_c/B) calls carry class_label = c, *)
(* their sizes are those of splitting N_c alone (so they sum to N_c and do *)
(* not depend on the other classes), and every file saved from those calls *)
(* is tagged with class c.                                                 *)
C2_LabeledBatchesPerClass ==
    (mgr = "done" /\ cfg.paradigm = "labeled") =>
        LET items == cfg.n_images.items
            B == BatchSize(cfg)
        IN  /\ \A k \in 1..Len(items) :
                  LET cs == SelectSeq(calls,
                                LAMBDA x : x.class_label = items[k].label)
                  IN  /\ Len(cs) = CeilDiv(items[k].value.val, B)
                      /\ SumSeq(Sizes(cs)) = items[k].value.val
                      /\ Sizes(cs) = ExpectedSizes(items[k].value.val, B)
            /\ \A i \in 1..Len(calls) :
                  /\ calls[i].labeled
                  /\ \E k \in 1..Len(items) : calls[i].class_label = items[k].label
            /\ \A i \in 1..Len(saved) :
                  /\ saved[i].image[1] \in 1..Len(calls)
                  /\ saved[i].path.tagged
                  /\ saved[i].path.class = calls[saved[i].image[1]].class_label

\* Two classes with different counts, one of them needing a remainder batch.
C2_Witness ==
    /\ mgr = "done" /\ cfg.paradigm = "labeled"
    /\ Len(cfg.n_images.items) = 2
    /\ cfg.n_images.items[1].value.val = 4
    /\ cfg.n_images.items[2].value.val = 2
    /\ BatchSize(cfg) = 3
    /\ Sizes(calls) = <<3, 1, 2>>
    /\ Len(saved) = 6

(* C3: run_inference calls save_single_image exactly once per generated    *)
(* sample; for unlabeled generation of N images the path indices are       *)
(* exactly 0..N-1 without repetition, for labeled generation the           *)
(* (index, class) pairs are pairwise distinct: no path is written twice.   *)
C3_OneSavePerSample ==
    mgr = "done" =>
        /\ Len(saved) = SumSeq(Sizes(calls))
        /\ \A c \in 1..Len(calls) : \A j \in 1..calls[c].n :
              Cardinality({i \in 1..Len(saved) : saved[i].image = <<c, j>>}) = 1
        /\ \A i, j \in 1..Len(saved) :
              i # j => saved[i].path # saved[j].path
        /\ \A i, j \in 1..Len(saved) :
              i # j => <<saved[i].path.index, saved[i].path.class>>
                         # <<saved[j].path.index, saved[j].path.class>>
        /\ \A i \in 1..Len(saved) : saved[i].path.dir = out_dir
        /\ cfg.paradigm = "unlabeled" =>
              /\ {saved[i].path.index : i \in 1..Len(saved)}
                    = 0..(cfg.n_images.val - 1)
              /\ Len(saved) = cfg.n_images.val
              /\ \A i \in 1..Len(saved) : ~saved[i].path.tagged

\* An unlabeled run whose last batch is a remainder batch that follows a
\* full one, and a labeled run that saves index 0 for two classes.
C3_Witness ==
    /\ mgr = "done"
    /\ \/ /\ cfg.paradigm = "unlabeled"
          /\ Len(calls) = 2 /\ calls[2].n < calls[1].n
          /\ Len(saved) = 4 /\ saved[4].path.index = 3
       \/ /\ cfg.paradigm = "labeled"
          /\ Len(calls) = 3 /\ Len(saved) = 6
          /\ saved[1].path.index = 0 /\ saved[6].path.index = 0
          /\ saved[1].path.class # saved[6].path.class

\* What C4 calls a configuration that must be rejected.
PositiveInteger(v) == v.kind = "int" /\ v.val >= 1
Rejected(c) ==
    \/ ~c.has_params
    \/ c.n_images.kind = "missing"
    \/ c.paradigm = "unlabeled" /\ ~PositiveInteger(c.n_images)
    \/ /\ c.paradigm # "unlabeled"
       /\ \/ c.n_images.kind # "dict"
          \/ \E i \in 1..Len(c.n_images.items) :
                ~PositiveInteger(c.n_images.items[i].value)

(* C4: constructing the InferenceManager fails when the inference          *)
(* configuration lacks n_images_to_generate, when the paradigm is          *)
(* unlabeled and the count is not a positive integer, or when the paradigm *)
(* is labeled and the value is not a mapping of positive integers; the     *)
(* failure comes before the factory creates the module, before a           *)
(* checkpoint is loaded and before any inference_step call.                *)
C4_InvalidConfigFailsEarly ==
    (mgr # "none" /\ Rejected(cfg)) =>
        /\ mgr = "failed"
        /\ "validate_inference_config" \in Range(ctor_trace)
        /\ "get_module" \notin Range(ctor_trace)
        /\ "load_checkpoint" \notin Range(ctor_trace)
        /\ calls = <<>>
        /\ saved = <<>>

\* A labeled configuration whose second class asks for 0 images, rejected
\* after the output directory was prepared.
C4_Witness ==
    /\ mgr = "failed"
    /\ cfg.paradigm = "labeled" /\ cfg.n_images.kind = "dict"
    /\ Len(cfg.n_images.items) = 2
    /\ cfg.n_images.items[1].value = [kind |-> "int", val |-> 2]
    /\ cfg.n_images.items[2].value = [kind |-> "int", val |-> 0]
    /\ ctor_trace = <<"prepare_output_directory", "validate_inference_config">>


----------------------------------------------------------------------------
(* Training: the DCGAN and the StyleGAN module under the trainer.          *)
(*                                                                         *)
(* tcfg holds what the modules read:                                       *)
(*   accumulate_grad_batches   model_config.accumulate_grad_batches        *)
(*   progressive_epochs        architecture["progressive_epochs"]          *)
(*   alpha                     architecture["alpha"], the initial alpha    *)
(*   n_dimensions, save_eval_images_every_n_epochs,                        *)
(*   n_fixed_images_to_generate, fixed_images_batch_size                   *)
(*   max_epochs                trainer.max_epochs                          *)
(*   dataset_size              len(trainer.train_dataloader.dataset)       *)
(*   batch_size                the batch size of the training dataloader   *)
(*   transforms                dataset.transforms before training          *)
(* alpha is a float in the code; the model keeps it as an exact fraction.  *)

MaxAccumulate == 3    \* accumulate_grad_batches ranges over 1..MaxAccumulate
MaxDatasetSize == 6   \* the training set holds 1..MaxDatasetSize samples
MaxStageEpochs == 2   \* every stage lasts 1..MaxStageEpochs epochs
MaxEpochs == 3        \* trainer.max_epochs ranges over 1..MaxEpochs
RngModulus == 5       \* a random generator has RngModulus states
MaxPredictBatch == 2  \* predict_step gets batches of 1..MaxPredictBatch entries
\* the largest n_fixed_images_to_generate, fixed_images_batch_size and
\* save_eval_images_every_n_epochs of the preview runs
MaxFixedImages == 5
MaxFixedBatch == 3
MaxInterval == 2

\* architecture["progressive_size_starting_value"] and
\* architecture["progressive_size_growth_factor"]
ProgressiveSizeStartingValue == 4
ProgressiveSizeGrowthFactor == 2

RECURSIVE Gcd(_, _)
Gcd(a, b) == IF b = 0 THEN a ELSE Gcd(b, a % b)

RECURSIVE Pow(_, _)
Pow(b, e) == IF e = 0 THEN 1 ELSE b * Pow(b, e - 1)

\* Fractions <<numerator, denominator>> in lowest terms, denominator > 0.
Frac(n, d) == <<n \div Gcd(n, d), d \div Gcd(n, d)>>
FracAdd(a, b) == Frac(a[1] * b[2] + b[1] * a[2], a[2] * b[2])
FracLeq(a, b) == a[1] * b[2] <= b[1] * a[2]
FracMin(a, b) == IF FracLeq(a, b) THEN a ELSE b
One == <<1, 1>>

\* torch's random generators.  A generator state is a number modulo
\* RngModulus; a draw of n values returns the next n states' values and
\* moves the state n places on.  Every device has its own generator.
Devices == {"cpu", "cuda"}
RngStates == 0..(RngModulus - 1)

\* torch.randn / torch.rand of n values on the given device
Randn(r, device, n) ==
    [out |-> [i \in 1..n |-> (r[device] + i - 1) % RngModulus],
     rng |-> [r EXCEPT ![device] = (r[device] + n) % RngModulus]]

\* torch.manual_seed(seed) seeds the generator of every device.
ManualSeed(r, seed) == [d \in DOMAIN r |-> seed % RngModulus]

\* torch.get_rng_state() / torch.set_rng_state(state): the CPU generator.
GetRngState(r) == r.cpu
SetRngState(r, state) == [r EXCEPT !.cpu = state]

\* _generate_latent_vector(batch_size)
GenerateLatentVector(r, device, batch_size) == Randn(r, device, batch_size)

\* _generate_fixed_latent_vector(batch_size): the latent vector and the
\* generators afterwards.
GenerateFixedLatentVector(r, device, seed, batch_size) ==
    LET current_rng_state == GetRngState(r)
        drawn == GenerateLatentVector(ManualSeed(r, seed), device, batch_size)
    IN  [out |-> drawn.out,
         rng |-> SetRngState(drawn.rng, current_rng_state)]

CountOf(trace, ev) == Cardinality({i \in 1..Len(trace) : trace[i] = ev})

\* The batches of one epoch: dataset_size samples in batches of batch_size,
\* the last one holding the remainder.
DataloaderBatches(dataset_size, batch_size) ==
    [i \in 1..((dataset_size + batch_size - 1) \div batch_size) |->
        IF i * batch_size <= dataset_size THEN batch_size
        ELSE dataset_size - (i - 1) * batch_size]

NBatches(c) == Len(DataloaderBatches(c.dataset_size, c.batch_size))
\* real_images.shape[0] of the batch with index i (from 0)
BatchAt(c, i) == DataloaderBatches(c.dataset_size, c.batch_size)[i + 1]

\* (batch_idx + 1) % gardient_accumulation_steps == 0
AccumulationBoundaryOffByOne(idx, accumulate_grad_batches) ==
    idx % accumulate_grad_batches = 0
AccumulationBoundary(idx, accumulate_grad_batches) ==
    (idx + 1) % accumulate_grad_batches = 0

\* The conditional optimizer.step() and optimizer.zero_grad(set_to_none=True)
OptimizerEventsEveryBatch(step, zero_grad, idx, accumulate_grad_batches) ==
    <<step, zero_grad>>
OptimizerEvents(step, zero_grad, idx, accumulate_grad_batches) ==
    IF AccumulationBoundary(idx, accumulate_grad_batches)
    THEN <<step, zero_grad>>
    ELSE <<>>

\* UnlabeledDCGANModule.training_step: what it does, in order.
DCGANStepTraceGeneratorEveryBatch(idx, k) ==
    <<"toggle_gen", "generate", "score_fake", "backward_gen", "clip_gen">>
    \o OptimizerEventsEveryBatch("step_gen", "zero_grad_gen", idx, k)
    \o <<"untoggle_gen", "toggle_disc", "score_real", "score_fake_detached",
         "backward_disc", "clip_disc">>
    \o OptimizerEvents("step_disc", "zero_grad_disc", idx, k)
    \o <<"untoggle_disc", "append_loss">>
DCGANStepTraceDiscFirst(idx, k) ==
    <<"toggle_disc", "generate", "score_real", "score_fake_detached",
      "backward_disc", "clip_disc">>
    \o OptimizerEvents("step_disc", "zero_grad_disc", idx, k)
    \o <<"untoggle_disc", "toggle_gen", "score_fake", "backward_gen",
         "clip_gen">>
    \o OptimizerEvents("step_gen", "zero_grad_gen", idx, k)
    \o <<"untoggle_gen", "append_loss">>
DCGANStepTrace(idx, k) ==
    <<"toggle_gen", "generate", "score_fake", "backward_gen", "clip_gen">>
    \o OptimizerEvents("step_gen", "zero_grad_gen", idx, k)
    \o <<"untoggle_gen", "toggle_disc", "score_real", "score_fake_detached",
         "backward_disc", "clip_disc">>
    \o OptimizerEvents("step_disc", "zero_grad_disc", idx, k)
    \o <<"untoggle_disc", "append_loss">>

\* UnlabeledStyleGANModule.training_step on a batch of more than one sample.
StyleGANStepTraceScoredOnce(idx, k) ==
    <<"generate", "score_real", "score_fake_detached", "score_fake",
      "toggle_disc", "gradient_penalty", "backward_disc", "clip_disc">>
    \o OptimizerEvents("step_disc", "zero_grad_disc", idx, k)
    \o <<"untoggle_disc", "toggle_gen", "backward_gen", "clip_gen">>
    \o OptimizerEvents("step_gen", "zero_grad_gen", idx, k)
    \o <<"untoggle_gen", "update_alpha", "append_loss">>
StyleGANStepTrace(idx, k) ==
    <<"generate", "score_real", "score_fake_detached", "toggle_disc",
      "gradient_penalty", "backward_disc", "clip_disc">>
    \o OptimizerEvents("step_disc", "zero_grad_disc", idx, k)
    \o <<"untoggle_disc", "toggle_gen", "score_fake", "backward_gen",
         "clip_gen">>
    \o OptimizerEvents("step_gen", "zero_grad_gen", idx, k)
    \o <<"untoggle_gen", "update_alpha", "append_loss">>

\* The gradients of a network's parameters: grad lists the batches
\* (<<epoch, batch_idx>>) whose backward pass has added to .grad since the
\* last zero_grad, applied the batches whose gradients the latest
\* optimizer step applied.  manual_backward adds to .grad, optimizer.step()
\* applies what .grad holds, zero_grad(set_to_none=True) empties it.
RECURSIVE GradientsAfter(_, _, _, _)
GradientsAfter(g, trace, net, batch) ==
    IF trace = <<>> THEN g
    ELSE LET ev == Head(trace)
             next == IF ev = "backward_" \o net
                     THEN [g EXCEPT !.grad = Append(@, batch)]
                     ELSE IF ev = "step_" \o net
                     THEN [g EXCEPT !.applied = g.grad]
                     ELSE IF ev = "zero_grad_" \o net
                     THEN [g EXCEPT !.grad = <<>>]
                     ELSE g
         IN  GradientsAfter(next, Tail(trace), net, batch)

\* The optimizer counters and the gradients after the step of batch idx of
\* the given epoch, with the given trace.
OptAfter(o, trace, epoch, idx) ==
    [disc_step |-> o.disc_step + CountOf(trace, "step_disc"),
     disc_zero_grad |-> o.disc_zero_grad + CountOf(trace, "zero_grad_disc"),
     gen_step |-> o.gen_step + CountOf(trace, "step_gen"),
     gen_zero_grad |-> o.gen_zero_grad + CountOf(trace, "zero_grad_gen"),
     disc |-> GradientsAfter(o.disc, trace, "disc", <<epoch, idx>>),
     gen |-> GradientsAfter(o.gen, trace, "gen", <<epoch, idx>>)]

\* self.alpha += increment; self.alpha = min(self.alpha, 1.0): the values
\* alpha may have afterwards.  The sum is exact when both terms are exact
\* floats.  Otherwise it is rounded: a sum above 1 is clamped to 1.0, a sum
\* of 1 comes out as 1.0 or as the float below it, which min() leaves.
AlphaAfterAdding(a, increment) ==
    LET sum == FracAdd(a.value, increment)
    IN  IF ~a.rounded /\ IsFloat(increment)
        THEN {Exactly(FracMin(sum, One))}
        ELSE IF sum = One THEN {Exactly(One), Rounded(One)}
        ELSE IF FracLeq(One, sum) THEN {Exactly(One)}
        ELSE {Rounded(sum)}

\* self.alpha += batch_size / (progressive_epochs[current_step] * len(dataset))
\* self.alpha = min(self.alpha, 1.0)
AlphaAfterStepNoClamp(a, batch_size, stage_epochs, dataset_size) ==
    {[value |-> FracAdd(a.value, Frac(batch_size, stage_epochs * dataset_size)),
      rounded |-> a.rounded
                  \/ ~IsFloat(Frac(batch_size, stage_epochs * dataset_size))]}
AlphaAfterStepPerDataset(a, batch_size, stage_epochs, dataset_size) ==
    AlphaAfterAdding(a, Frac(batch_size, dataset_size))
AlphaAfterStep(a, batch_size, stage_epochs, dataset_size) ==
    AlphaAfterAdding(a, Frac(batch_size, stage_epochs * dataset_size))

\* The loss record of a step: the two losses of that batch.
LossDictDiscOnly(epoch, idx) == [disc_loss |-> <<"disc", epoch, idx>>]
LossDict(epoch, idx) ==
    [disc_loss |-> <<"disc", epoch, idx>>, gen_loss |-> <<"gen", epoch, idx>>]

\* _determine_current_spatial_size
DetermineCurrentSpatialSize(step) ==
    ProgressiveSizeStartingValue * Pow(ProgressiveSizeGrowthFactor, step)

\* _determine_required_spatial_shape
DetermineRequiredSpatialShapeFlat(step, n_dimensions) ==
    LET required_spatial_size == DetermineCurrentSpatialSize(step)
    IN  <<required_spatial_size, required_spatial_size, 1>>
DetermineRequiredSpatialShape(step, n_dimensions) ==
    LET required_spatial_size == DetermineCurrentSpatialSize(step)
    IN  <<required_spatial_size, required_spatial_size,
          IF n_dimensions = 2 THEN 1 ELSE required_spatial_size>>

\* _determine_current_resize_transform
Resize(shape) == [kind |-> "Resize", shape |-> shape, id |-> 0]
Other(id) == [kind |-> "Other", shape |-> <<0, 0, 0>>, id |-> id]
IsResize(t) == t.kind = "Resize"

\* _replace_existing_resize_transform_in_existing_transforms: the first
\* Resize of the list is replaced.
ReplaceExistingResize(current_transforms, new_resize_transform) ==
    LET i == CHOOSE i \in 1..Len(current_transforms) :
                /\ IsResize(current_transforms[i])
                /\ \A j \in 1..(i - 1) : ~IsResize(current_transforms[j])
    IN  [current_transforms EXCEPT ![i] = new_resize_transform]

\* _add_resize_transform_to_existing_transforms
AddResize(current_transforms, new_resize_transform) ==
    Append(current_transforms, new_resize_transform)

\* _set_current_resize_transform: the dataset's transforms afterwards.
SetCurrentResizeTransformStacking(ts, step, n_dimensions) ==
    [none |-> FALSE,
     items |-> AddResize(IF ts.none THEN <<>> ELSE ts.items,
                         Resize(DetermineRequiredSpatialShape(step,
                                                              n_dimensions)))]
SetCurrentResizeTransform(ts, step, n_dimensions) ==
    LET current_resize_transform ==
            Resize(DetermineRequiredSpatialShape(step, n_dimensions))
        current_transforms == IF ts.none THEN <<>> ELSE ts.items
    IN  [none |-> FALSE,
         items |-> IF \E i \in 1..Len(current_transforms) :
                          IsResize(current_transforms[i])
                   THEN ReplaceExistingResize(current_transforms,
                                              current_resize_transform)
                   ELSE AddResize(current_transforms, current_resize_transform)]

\* The assertion of on_train_start.
RECURSIVE SumSeqFrom(_, _)
SumSeqFrom(s, i) == IF i > Len(s) THEN 0 ELSE s[i] + SumSeqFrom(s, i + 1)
EpochsMatch(c) == c.max_epochs = SumSeqFrom(c.progressive_epochs, 1)

\* on_train_start: the dataset's transforms when it returns or raises.
TransformsAfterTrainStartUnchecked(c, ts) ==
    SetCurrentResizeTransform(ts, 0, c.n_dimensions)
TransformsAfterTrainStart(c, ts) ==
    IF EpochsMatch(c) THEN SetCurrentResizeTransform(ts, 0, c.n_dimensions)
    ELSE ts

\* The fixed-seed preview of on_train_epoch_end: the sizes of the batches it
\* generates and the index each saved file gets, in order.
PreviewSizes(c) ==
    LET last_batch_size ==
            c.n_fixed_images_to_generate % c.fixed_images_batch_size
        whole == c.n_fixed_images_to_generate \div c.fixed_images_batch_size
        n_batches == IF last_batch_size > 0 THEN whole + 1 ELSE whole
    IN  [i \in 1..n_batches |->
            IF i - 1 = n_batches - 1 /\ last_batch_size > 0
            THEN last_batch_size ELSE c.fixed_images_batch_size]

PreviewIndicesConsecutive(c) ==
    LET sizes == PreviewSizes(c)
    IN  Flatten([i \in 1..Len(sizes) |->
                    [n \in 1..sizes[i] |->
                        (i - 1) * c.fixed_images_batch_size + (n - 1)]])
PreviewIndices(c) ==
    LET sizes == PreviewSizes(c)
    IN  Flatten([i \in 1..Len(sizes) |->
                    [n \in 1..sizes[i] |-> (i - 1) * (n - 1) + (n - 1)]])

PreviewDueAnyDimension(c, epoch) ==
    /\ c.save_eval_images_every_n_epochs > 0
    /\ epoch % c.save_eval_images_every_n_epochs = 0
PreviewDue(c, epoch) ==
    /\ c.n_dimensions = 2
    /\ c.save_eval_images_every_n_epochs > 0
    /\ epoch % c.save_eval_images_every_n_epochs = 0

\* The loop over the preview batches from batch i on: the fixed latent
\* vector of every batch and the generators after the last one.
RECURSIVE PreviewLatentsFrom(_, _, _)
PreviewLatentsFrom(c, r, i) ==
    IF i > Len(PreviewSizes(c)) THEN [latents |-> <<>>, rng |-> r]
    ELSE LET fixed == GenerateFixedLatentVector(
                          r, c.device, c.fixed_latent_vector_seed,
                          PreviewSizes(c)[i])
             rest == PreviewLatentsFrom(c, fixed.rng, i + 1)
         IN  [latents |-> <<fixed.out>> \o rest.latents, rng |-> rest.rng]

\* _generate_image_set_from_fixed_vector: temp_alpha = 1.0
TempAlphaOfTraining == alpha.value
TempAlpha == One

\* The preview of an epoch end: the stage and the alpha its images are
\* generated with (the DCGAN generator takes neither: stage 0, alpha 0).
PreviewOf(c, epoch, step, a, r) ==
    IF PreviewDue(c, epoch)
    THEN [made |-> TRUE, epoch |-> epoch, stage |-> step, alpha |-> a,
          sizes |-> PreviewSizes(c), indices |-> PreviewIndices(c),
          latents |-> PreviewLatentsFrom(c, r, 1).latents]
    ELSE NoPreview

RngAfterPreview(c, epoch, r) ==
    IF PreviewDue(c, epoch) THEN PreviewLatentsFrom(c, r, 1).rng ELSE r

\* The draws of a training step: the latent vector, and in the StyleGAN
\* module the interpolation weights of the gradient penalty.
DCGANStepRng(r, device, batch_size) ==
    GenerateLatentVector(r, device, batch_size).rng
StyleGANStepRng(r, device, batch_size) ==
    Randn(GenerateLatentVector(r, device, batch_size).rng, device,
          batch_size).rng

----------------------------------------------------------------------------
(* SpecTrain: one training run of a DCGAN or a StyleGAN module.  The       *)
(* trainer calls on_train_start once, then for every epoch training_step   *)
(* for each batch in order (batch_idx from 0) and on_train_epoch_end, and  *)
(* stops after max_epochs epochs or at the first error.                    *)

MaxStages == 2

\* model_config.fixed_latent_vector_seed
FixedLatentVectorSeed == 3

Schedules ==
    UNION {[1..n -> 1..MaxStageEpochs] : n \in 1..MaxStages}

OldResize == [kind |-> "Resize", shape |-> <<128, 128, 1>>, id |-> 0]

\* Dimensionality, preview settings and the dataset's transforms.
PipelineConfigs ==
    {[n_dimensions |-> 2, save_eval_images_every_n_epochs |-> 1,
      n_fixed_images_to_generate |-> 3, fixed_images_batch_size |-> 2,
      transforms |-> [none |-> TRUE, items |-> <<>>]],
     [n_dimensions |-> 3, save_eval_images_every_n_epochs |-> 1,
      n_fixed_images_to_generate |-> 3, fixed_images_batch_size |-> 2,
      transforms |-> [none |-> FALSE,
                      items |-> <<Other(1), OldResize, Other(2)>>]],
     [n_dimensions |-> 2, save_eval_images_every_n_epochs |-> 2,
      n_fixed_images_to_generate |-> 4, fixed_images_batch_size |-> 2,
      transforms |-> [none |-> FALSE, items |-> <<Other(1)>>]],
     [n_dimensions |-> 2, save_eval_images_every_n_epochs |-> 0,
      n_fixed_images_to_generate |-> 3, fixed_images_batch_size |-> 3,
      transforms |-> [none |-> FALSE,
                      items |-> <<OldResize, Other(1), OldResize>>]]}

\* A record with the fields of both, those of b taking precedence.
Merge(a, b) ==
    [f \in DOMAIN a \cup DOMAIN b |-> IF f \in DOMAIN b THEN b[f] ELSE a[f]]

\* model_config.schedulers: None, or a dict; a dict is a function from its
\* keys to its entries.
NoSchedulers == [none |-> TRUE, dict |-> <<>>]
SchedulerEntry(key) ==
    IF key = "discriminator" THEN "disc_entry"
    ELSE IF key = "generator" THEN "gen_entry" ELSE "step"
SchedulerDicts ==
    {[k \in keys |-> SchedulerEntry(k)] :
        keys \in (SUBSET {"discriminator", "generator", "type"}) \ {{}}}
SchedulerConfigs ==
    {NoSchedulers} \cup {[none |-> FALSE, dict |-> d] : d \in SchedulerDicts}

\* model_config.default_forward_step: the attribute may be missing.
NoDefaultForwardStep == [present |-> FALSE, value |-> 0]
DefaultForwardSteps ==
    {NoDefaultForwardStep}
    \cup {[present |-> TRUE, value |-> n] : n \in 0..MaxStages}

\* self.postprocessing_transforms: None, or a list of transforms.
NoPostprocessing == [none |-> TRUE, items |-> <<>>]
PostprocessingLists ==
    {NoPostprocessing}
    \cup {[none |-> FALSE, items |-> l] :
             l \in {<<>>, <<"t1">>, <<"t1", "t2">>, <<"t2", "t1">>}}

\* What the module methods read besides the training loop's settings.
ModuleSettings ==
    [device : Devices,
     fixed_latent_vector_seed : {FixedLatentVectorSeed},
     schedulers : SchedulerConfigs,
     default_forward_step : DefaultForwardSteps,
     postprocessing_transforms : PostprocessingLists]

\* The module settings of the training runs: either device, no scheduler,
\* the first stage as the default stage of forward, one postprocessing
\* transform.
TrainSettings ==
    {t \in ModuleSettings :
        /\ t.schedulers = NoSchedulers
        /\ t.default_forward_step = [present |-> TRUE, value |-> 0]
        /\ t.postprocessing_transforms = [none |-> FALSE, items |-> <<"t1">>]}

AuxConfigs == {Merge(p, t) : p \in PipelineConfigs, t \in TrainSettings}

TrainConfig(k, pe, a, me, ds, bs, aux) ==
    [accumulate_grad_batches |-> k,
     progressive_epochs |-> pe,
     alpha |-> a,
     max_epochs |-> me,
     dataset_size |-> ds,
     batch_size |-> bs,
     n_dimensions |-> aux.n_dimensions,
     save_eval_images_every_n_epochs |-> aux.save_eval_images_every_n_epochs,
     n_fixed_images_to_generate |-> aux.n_fixed_images_to_generate,
     fixed_images_batch_size |-> aux.fixed_images_batch_size,
     transforms |-> aux.transforms,
     device |-> aux.device,
     fixed_latent_vector_seed |-> aux.fixed_latent_vector_seed,
     schedulers |-> aux.schedulers,
     default_forward_step |-> aux.default_forward_step,
     postprocessing_transforms |-> aux.postprocessing_transforms]

DCGANConfigs ==
    {TrainConfig(k, <<>>, <<0, 1>>, me, ds, bs, aux) :
        k \in 1..MaxAccumulate, me \in 1..MaxEpochs, ds \in 1..MaxDatasetSize,
        bs \in 1..MaxBatchSize, aux \in AuxConfigs}

\* The initial alpha lies in [0, 1]; the epoch budget equals the sum of the
\* stage epochs or misses it by one.
StyleGANConfigs ==
    {c \in {TrainConfig(k, pe, a, me, ds, bs, aux) :
                k \in 1..MaxAccumulate, pe \in Schedules,
                a \in {<<0, 1>>, <<1, 2>>, <<1, 1>>},
                me \in 1..MaxEpochs, ds \in 1..MaxDatasetSize,
                bs \in 1..MaxBatchSize, aux \in AuxConfigs} :
        c.max_epochs - SumSeqFrom(c.progressive_epochs, 1) \in {-1, 0, 1}}

InitTrain ==
    /\ fs = {} /\ fs0 = {} /\ dir_calls = <<>> /\ procs = NoProcs
    /\ InfInit
    /\ arch \in {"dcgan", "stylegan"}
    /\ tcfg \in IF arch = "dcgan" THEN DCGANConfigs ELSE StyleGANConfigs
    /\ phase = "init"
    /\ current_epoch = 0
    /\ batch_idx = 0
    /\ alpha = Exactly(tcfg.alpha)
    /\ current_step = 0
    /\ current_epoch_in_progressive_epoch = 0
    /\ train_loss_list = <<>>
    /\ transforms = tcfg.transforms
    /\ opt = NoOpt
    /\ last_step = NoStep
    /\ total_batches = 0
    /\ preview = NoPreview
    /\ rng = FreshRng
    /\ last_call = NoCall

\* get_scheduler(optimizer, config): the scheduler built for an optimizer.
GetScheduler(optimizer, config) == [optimizer |-> optimizer, config |-> config]
NoScheduler == [optimizer |-> "none", config |-> "none"]

\* UnlabeledStyleGANModule._initialize_scheduler
StyleGANInitializeSchedulerLenient(disc_optimizer, gen_optimizer, schedulers_config) ==
    IF /\ "discriminator" \in DOMAIN schedulers_config
       /\ "generator" \in DOMAIN schedulers_config
    THEN [error |-> "none",
          disc_scheduler |-> GetScheduler(disc_optimizer,
                                 schedulers_config["discriminator"]),
          gen_scheduler |-> GetScheduler(gen_optimizer,
                                schedulers_config["generator"])]
    ELSE [error |-> "none",
          disc_scheduler |-> GetScheduler(disc_optimizer, schedulers_config),
          gen_scheduler |-> GetScheduler(gen_optimizer, schedulers_config)]
StyleGANInitializeScheduler(disc_optimizer, gen_optimizer, schedulers_config) ==
    IF \/ "discriminator" \in DOMAIN schedulers_config
       \/ "generator" \in DOMAIN schedulers_config
    THEN IF /\ "discriminator" \in DOMAIN schedulers_config
            /\ "generator" \in DOMAIN schedulers_config
         THEN [error |-> "none",
               disc_scheduler |-> GetScheduler(disc_optimizer,
                                      schedulers_config["discriminator"]),
               gen_scheduler |-> GetScheduler(gen_optimizer,
                                     schedulers_config["generator"])]
         ELSE [error |-> "AssertionError",
               disc_scheduler |-> NoScheduler, gen_scheduler |-> NoScheduler]
    ELSE [error |-> "none",
          disc_scheduler |-> GetScheduler(disc_optimizer, schedulers_config),
          gen_scheduler |-> GetScheduler(gen_optimizer, schedulers_config)]

\* UnlabeledDCGANModule._initialize_scheduler
DCGANInitializeScheduler(disc_optimizer, gen_optimizer, schedulers_config) ==
    IF \/ "discriminator" \in DOMAIN schedulers_config
       \/ "generator" \in DOMAIN schedulers_config
    THEN IF /\ "discriminator" \in DOMAIN schedulers_config
            /\ "generator" \in DOMAIN schedulers_config
         THEN [error |-> "none",
               disc_scheduler |-> GetScheduler(disc_optimizer,
                                      schedulers_config["discriminator"]),
               gen_scheduler |-> GetScheduler(gen_optimizer,
                                     schedulers_config["generator"])]
         ELSE [error |-> "AssertionError",
               disc_scheduler |-> NoScheduler, gen_scheduler |-> NoScheduler]
    ELSE [error |-> "none",
          disc_scheduler |-> GetScheduler(disc_optimizer, schedulers_config),
          gen_scheduler |-> GetScheduler(gen_optimizer, schedulers_config)]

\* configure_optimizers of either module: the optimizers, discriminator
\* first, and with a scheduler config the two schedulers in the same order.
ConfigureOptimizersOf(module, c) ==
    LET disc_optimizer == "disc_optimizer"
        gen_optimizer == "gen_optimizer"
    IN  IF ~c.schedulers.none
        THEN LET schedulers ==
                     IF module = "dcgan"
                     THEN DCGANInitializeScheduler(disc_optimizer,
                              gen_optimizer, c.schedulers.dict)
                     ELSE StyleGANInitializeScheduler(disc_optimizer,
                              gen_optimizer, c.schedulers.dict)
             IN  IF schedulers.error # "none"
                 THEN [op |-> "configure_optimizers",
                       error |-> schedulers.error,
                       out |-> [optimizers |-> <<>>, schedulers |-> <<>>]]
                 ELSE [op |-> "configure_optimizers", error |-> "none",
                       out |-> [optimizers |-> <<disc_optimizer, gen_optimizer>>,
                                schedulers |-> <<schedulers.disc_scheduler,
                                                 schedulers.gen_scheduler>>]]
        ELSE [op |-> "configure_optimizers", error |-> "none",
              out |-> [optimizers |-> <<disc_optimizer, gen_optimizer>>,
                       schedulers |-> <<>>]]

\* trainer.fit calls configure_optimizers of the module before on_train_start
\* and the first training_step: whether that call returns.
FitConfigures(module, c) == ConfigureOptimizersOf(module, c).error = "none"

\* The trainer starts fitting a DCGAN module, which has no on_train_start:
\* configure_optimizers has returned.
DCGANTrainStart ==
    /\ arch = "dcgan" /\ phase = "init"
    /\ FitConfigures(arch, tcfg)
    /\ phase' = "training"
    /\ UNCHANGED rng
    /\ UNCHANGED <<dir_vars, inf_vars, last_call, arch, tcfg, current_epoch,
                   batch_idx, alpha, current_step,
                   current_epoch_in_progressive_epoch, train_loss_list,
                   transforms, opt, last_step, total_batches, preview>>

\* UnlabeledStyleGANModule.on_train_start, which the trainer calls once
\* configure_optimizers has returned.
StyleGANOnTrainStart ==
    /\ arch = "stylegan" /\ phase = "init"
    /\ FitConfigures(arch, tcfg)
    /\ phase' = IF EpochsMatch(tcfg) THEN "training" ELSE "failed"
    /\ transforms' = TransformsAfterTrainStart(tcfg, transforms)
    /\ UNCHANGED rng
    /\ UNCHANGED <<dir_vars, inf_vars, last_call, arch, tcfg, current_epoch,
                   batch_idx, alpha, current_step,
                   current_epoch_in_progressive_epoch, train_loss_list,
                   opt, last_step, total_batches, preview>>

\* The fit of a module whose configure_optimizers raises (a scheduler config
\* that names one of the two networks): the error ends the fit before
\* on_train_start, and no training_step runs.
FitConfigureOptimizersRaises ==
    /\ arch # "none" /\ phase = "init"
    /\ ~FitConfigures(arch, tcfg)
    /\ phase' = "failed"
    /\ UNCHANGED rng
    /\ UNCHANGED <<dir_vars, inf_vars, last_call, arch, tcfg, current_epoch,
                   batch_idx, alpha, current_step,
                   current_epoch_in_progressive_epoch, train_loss_list,
                   transforms, opt, last_step, total_batches, preview>>

\* UnlabeledDCGANModule.training_step(batch, batch_idx)
DCGANTrainingStep ==
    /\ arch = "dcgan" /\ phase = "training" /\ batch_idx < NBatches(tcfg)
    /\ LET trace == DCGANStepTrace(batch_idx, tcfg.accumulate_grad_batches)
       IN  /\ opt' = OptAfter(opt, trace, current_epoch, batch_idx)
           /\ last_step' = [batch_idx |-> batch_idx,
                            batch_size |-> BatchAt(tcfg, batch_idx),
                            skipped |-> FALSE, trace |-> trace]
    /\ train_loss_list' = Append(train_loss_list,
                                 LossDict(current_epoch, batch_idx))
    /\ rng' = DCGANStepRng(rng, tcfg.device, BatchAt(tcfg, batch_idx))
    /\ batch_idx' = batch_idx + 1
    /\ total_batches' = total_batches + 1
    /\ UNCHANGED <<dir_vars, inf_vars, last_call, arch, tcfg, phase,
                   current_epoch, alpha, current_step,
                   current_epoch_in_progressive_epoch, transforms, preview>>

\* if batch_size == 1: warn and return None
SkipsBatchNever(batch_size) == FALSE
SkipsBatch(batch_size) == batch_size = 1

\* UnlabeledStyleGANModule.training_step(batch, batch_idx).  A batch of one
\* sample is skipped; progressive_epochs[current_step] raises when the stage
\* index has left the schedule.
StyleGANTrainingStep ==
    /\ arch = "stylegan" /\ phase = "training" /\ batch_idx < NBatches(tcfg)
    /\ LET batch_size == BatchAt(tcfg, batch_idx)
           trace == StyleGANStepTrace(batch_idx, tcfg.accumulate_grad_batches)
           in_schedule == current_step + 1 <= Len(tcfg.progressive_epochs)
       IN  IF SkipsBatch(batch_size)
           THEN /\ last_step' = [batch_idx |-> batch_idx,
                                 batch_size |-> batch_size,
                                 skipped |-> TRUE, trace |-> <<"warn">>]
                /\ UNCHANGED <<opt, alpha, train_loss_list, phase, rng>>
           ELSE IF in_schedule
           THEN /\ opt' = OptAfter(opt, trace, current_epoch, batch_idx)
                /\ rng' = StyleGANStepRng(rng, tcfg.device, batch_size)
                /\ alpha' \in AlphaAfterStep(alpha, batch_size,
                                tcfg.progressive_epochs[current_step + 1],
                                tcfg.dataset_size)
                /\ train_loss_list' = Append(train_loss_list,
                                             LossDict(current_epoch, batch_idx))
                /\ last_step' = [batch_idx |-> batch_idx,
                                 batch_size |-> batch_size,
                                 skipped |-> FALSE, trace |-> trace]
                /\ UNCHANGED phase
           ELSE /\ opt' = OptAfter(opt, trace, current_epoch, batch_idx)
                /\ rng' = StyleGANStepRng(rng, tcfg.device, batch_size)
                /\ last_step' = [batch_idx |-> batch_idx,
                                 batch_size |-> batch_size, skipped |-> FALSE,
                                 trace |-> SubSeq(trace, 1, Len(trace) - 2)
                                           \o <<"raise">>]
                /\ phase' = "failed"
                /\ UNCHANGED <<alpha, train_loss_list>>
    /\ batch_idx' = batch_idx + 1
    /\ total_batches' = total_batches + 1
    /\ UNCHANGED <<dir_vars, inf_vars, last_call, arch, tcfg, current_epoch,
                   current_step, current_epoch_in_progressive_epoch,
                   transforms, preview>>

\* self._epoch_log(self.train_loss_list): the epoch's aggregate logging reads
\* the loss history; the list it leaves behind.
EpochLog(metrics_list) == metrics_list

\* The trainer after on_train_epoch_end: the next epoch, or the end.
PhaseAfterEpoch(c, epoch) ==
    IF epoch + 1 >= c.max_epochs THEN "done" ELSE "training"

\* UnlabeledDCGANModule.on_train_epoch_end
DCGANOnTrainEpochEnd ==
    /\ arch = "dcgan" /\ phase = "training" /\ batch_idx = NBatches(tcfg)
    /\ preview' = PreviewOf(tcfg, current_epoch, 0, <<0, 1>>, rng)
    /\ rng' = RngAfterPreview(tcfg, current_epoch, rng)
    /\ current_epoch' = current_epoch + 1
    /\ batch_idx' = 0
    /\ phase' = PhaseAfterEpoch(tcfg, current_epoch)
    /\ train_loss_list' = EpochLog(train_loss_list)
    /\ UNCHANGED <<dir_vars, inf_vars, last_call, arch, tcfg, alpha,
                   current_step, current_epoch_in_progressive_epoch,
                   transforms, opt, last_step, total_batches>>

\* _update_current_step: <<current_epoch_in_progressive_epoch, current_step,
\* whether the stage advanced>>
UpdateCurrentStepStrict(c, in_stage, step) ==
    LET current_progressive_epochs == c.progressive_epochs[step + 1]
    IN  IF in_stage + 1 > current_progressive_epochs
        THEN <<0, step + 1, TRUE>>
        ELSE <<in_stage + 1, step, FALSE>>
UpdateCurrentStep(c, in_stage, step) ==
    LET current_progressive_epochs == c.progressive_epochs[step + 1]
    IN  IF in_stage + 1 >= current_progressive_epochs
        THEN <<0, step + 1, TRUE>>
        ELSE <<in_stage + 1, step, FALSE>>

\* UnlabeledStyleGANModule.on_train_epoch_end
StyleGANOnTrainEpochEnd ==
    /\ arch = "stylegan" /\ phase = "training" /\ batch_idx = NBatches(tcfg)
    /\ preview' = PreviewOf(tcfg, current_epoch, current_step, TempAlpha, rng)
    /\ rng' = RngAfterPreview(tcfg, current_epoch, rng)
    /\ IF current_step + 1 <= Len(tcfg.progressive_epochs)
       THEN LET u == UpdateCurrentStep(tcfg, current_epoch_in_progressive_epoch,
                                       current_step)
            IN  /\ current_epoch_in_progressive_epoch' = u[1]
                /\ current_step' = u[2]
                /\ transforms' = IF u[3]
                                 THEN SetCurrentResizeTransform(
                                          transforms, u[2], tcfg.n_dimensions)
                                 ELSE transforms
                /\ phase' = PhaseAfterEpoch(tcfg, current_epoch)
       ELSE /\ current_epoch_in_progressive_epoch' =
                   current_epoch_in_progressive_epoch + 1
            /\ phase' = "failed"
            /\ UNCHANGED <<current_step, transforms>>
    /\ current_epoch' = current_epoch + 1
    /\ batch_idx' = 0
    /\ train_loss_list' = EpochLog(train_loss_list)
    /\ UNCHANGED <<dir_vars, inf_vars, last_call, arch, tcfg, alpha,
                   opt, last_step, total_batches>>

----------------------------------------------------------------------------
(* The methods of a module that are called outside the training loop.      *)
(* Each call leaves its name, its error ("none" when it returned) and its  *)
(* result in last_call.                                                    *)

\* validation_step / test_step: raise NotImplementedError(...)
StepNotImplementedSilent(op) == [op |-> op, error |-> "none", out |-> <<>>]
StepNotImplemented(op) ==
    [op |-> op, error |-> "NotImplementedError", out |-> <<>>]

\* self.model.generator(...): the images generated from a latent vector,
\* and the transforms applied to them since.
NoImages == [latent |-> <<>>, alpha |-> <<0, 1>>, step |-> 0, applied |-> <<>>]
DCGANGenerator(latent_vector) ==
    [latent |-> latent_vector, alpha |-> One, step |-> 0, applied |-> <<>>]
StyleGANGenerator(latent_vector, a, step) ==
    [latent |-> latent_vector, alpha |-> a, step |-> step, applied |-> <<>>]

\* fake_images = transform(fake_images)
Transformed(images, transform) ==
    [images EXCEPT !.applied = Append(@, transform)]

\* for transform in self.postprocessing_transforms: ...
RECURSIVE ApplyAll(_, _)
ApplyAll(images, ts) ==
    IF ts = <<>> THEN images
    ELSE ApplyAll(Transformed(images, Head(ts)), Tail(ts))

PostprocessFirstOnly(c, images) ==
    IF c.postprocessing_transforms.none
       \/ c.postprocessing_transforms.items = <<>> THEN images
    ELSE Transformed(images, Head(c.postprocessing_transforms.items))
Postprocess(c, images) ==
    IF c.postprocessing_transforms.none THEN images
    ELSE ApplyAll(images, c.postprocessing_transforms.items)

\* The current_step argument of forward: None unless a stage is passed.
NoneStep == [none |-> TRUE, value |-> 0]

\* UnlabeledStyleGANModule.forward(latent_vector, alpha, current_step)
StyleGANForwardUnchecked(c, latent_vector, a, step) ==
    [error |-> "none",
     images |-> StyleGANGenerator(latent_vector, a,
                    IF step.none THEN c.default_forward_step.value
                    ELSE step.value)]
StyleGANForward(c, latent_vector, a, step) ==
    IF step.none
    THEN IF ~c.default_forward_step.present
         THEN [error |-> "ValueError", images |-> NoImages]
         ELSE [error |-> "none",
               images |-> StyleGANGenerator(latent_vector, a,
                              c.default_forward_step.value)]
    ELSE [error |-> "none",
          images |-> StyleGANGenerator(latent_vector, a, step.value)]

\* UnlabeledStyleGANModule.predict_step(batch, batch_dx) on a batch of
\* n_images_to_generate entries: the call's record and the generators.
StyleGANPredictStep(c, r, n_images_to_generate) ==
    LET latent_vector == GenerateLatentVector(r, c.device, n_images_to_generate)
        fake_images == StyleGANForward(c, latent_vector.out, One, NoneStep)
    IN  [call |-> IF fake_images.error # "none"
                  THEN [op |-> "predict_step", error |-> fake_images.error,
                        out |-> NoImages]
                  ELSE [op |-> "predict_step", error |-> "none",
                        out |-> Postprocess(c, fake_images.images)],
         rng |-> latent_vector.rng]

\* UnlabeledDCGANModule.predict_step(batch, batch_dx); the images are
\* brought from [-1, 1] to [0, 1] after the postprocessing.
DCGANPredictStep(c, r, n_images_to_generate) ==
    LET latent_vector == GenerateLatentVector(r, c.device, n_images_to_generate)
        fake_images == DCGANGenerator(latent_vector.out)
    IN  [call |-> [op |-> "predict_step", error |-> "none",
                   out |-> Transformed(Postprocess(c, fake_images),
                                       "to_unit_range")],
         rng |-> latent_vector.rng]

\* The trainer is idle and a module method is called directly.
CallVars == <<dir_vars, inf_vars, arch, tcfg, phase, current_epoch,
              batch_idx, alpha, current_step,
              current_epoch_in_progressive_epoch, train_loss_list, transforms,
              opt, last_step, total_batches, preview>>

ValidationStep ==
    /\ arch # "none" /\ phase = "done"
    /\ last_call' = StepNotImplemented("validation_step")
    /\ UNCHANGED <<CallVars, rng>>

TestStep ==
    /\ arch # "none" /\ phase = "done"
    /\ last_call' = StepNotImplemented("test_step")
    /\ UNCHANGED <<CallVars, rng>>

ConfigureOptimizers ==
    /\ arch # "none" /\ phase = "done"
    /\ last_call' = ConfigureOptimizersOf(arch, tcfg)
    /\ UNCHANGED <<CallVars, rng>>

PredictStep ==
    /\ arch # "none" /\ phase = "done"
    /\ \E n \in 1..MaxPredictBatch :
          LET result == IF arch = "dcgan"
                        THEN DCGANPredictStep(tcfg, rng, n)
                        ELSE StyleGANPredictStep(tcfg, rng, n)
          IN  /\ last_call' = result.call
              /\ rng' = result.rng
    /\ UNCHANGED CallVars

NextTrain ==
    \/ PredictStep
    \/ DCGANTrainStart
    \/ StyleGANOnTrainStart
    \/ DCGANTrainingStep
    \/ StyleGANTrainingStep
    \/ DCGANOnTrainEpochEnd
    \/ StyleGANOnTrainEpochEnd

SpecTrain == InitTrain /\ [][NextTrain]_vars

(* C7: in the StyleGAN module alpha never decreases and never exceeds 1.0, *)
(* over every training step and epoch end, for every batch size, dataset   *)
(* size and schedule of stage epochs (each stage lasting at least one      *)
(* epoch, the initial alpha in [0, 1]).                                    *)
C7_AlphaMonotoneBounded ==
    [][arch = "stylegan" =>
          /\ FracLeq(alpha.value, alpha'.value)
          /\ alpha.value = alpha'.value => (alpha'.rounded => alpha.rounded)
          /\ FracLeq(alpha.value, One)
          /\ FracLeq(alpha'.value, One)]_vars

\* A run that started at alpha = 1/2 and whose steps have raised alpha to
\* the clamp.
C7_Witness ==
    /\ arch = "stylegan"
    /\ tcfg.alpha = <<1, 2>>
    /\ alpha = Exactly(One)
    /\ ~last_step.skipped /\ last_step.batch_size = 2
    /\ tcfg.dataset_size = 6
    /\ total_batches = 2

OptimizerCalls == {"step_disc", "zero_grad_disc", "step_gen", "zero_grad_gen"}

(* C8: in both modules a training step calls an optimizer's step and       *)
(* zero_grad only when (batch_idx + 1) is a multiple of                    *)
(* accumulate_grad_batches; on every other batch neither optimizer is      *)
(* stepped or zeroed, and zero_grad only ever directly follows the step of *)
(* the same optimizer.                                                     *)
C8_StepOnlyOnBoundary ==
    (arch # "none" /\ total_batches > 0) =>
        LET t == last_step.trace
            k == tcfg.accumulate_grad_batches
            q == (last_step.batch_idx + 1) \div k
        IN  /\ (\E i \in 1..Len(t) : t[i] \in OptimizerCalls)
                  => q * k = last_step.batch_idx + 1
            /\ \A i \in 1..Len(t) :
                  /\ t[i] = "zero_grad_disc" => (i > 1 /\ t[i - 1] = "step_disc")
                  /\ t[i] = "zero_grad_gen" => (i > 1 /\ t[i - 1] = "step_gen")
            /\ opt.disc_zero_grad = opt.disc_step
            /\ opt.gen_zero_grad = opt.gen_step

\* With accumulate_grad_batches = 3, batches 0 and 1 touched no optimizer
\* and batch 2 stepped and zeroed both.
C8_Witness ==
    /\ arch = "stylegan"
    /\ tcfg.accumulate_grad_batches = 3
    /\ last_step.batch_idx = 2 /\ ~last_step.skipped
    /\ "step_disc" \in Range(last_step.trace)
    /\ "step_gen" \in Range(last_step.trace)
    /\ opt.disc_step = 1 /\ opt.disc_zero_grad = 1 /\ total_batches = 3

(* C9, as stated: the discriminator optimizer's step has been invoked      *)
(* exactly floor(total_batches / accumulate_grad_batches) times, where     *)
(* total_batches counts every batch of the run, over all epochs.           *)
C9_StepsAreFloorOfTotal ==
    arch # "none" =>
        opt.disc_step = total_batches \div tcfg.accumulate_grad_batches

\* The batches with index below n that fall on an accumulation boundary and
\* are not skipped (StyleGAN skips batches of one sample).
SteppedBatches(n) ==
    {i \in 0..(n - 1) :
        /\ \E q \in 1..n : q * tcfg.accumulate_grad_batches = i + 1
        /\ arch = "stylegan" => BatchAt(tcfg, i) # 1}

(* C9, amended: the discriminator optimizer's step is invoked once for     *)
(* every batch that is not skipped and whose index in its epoch makes      *)
(* (batch_idx + 1) a multiple of accumulate_grad_batches.  An epoch of n   *)
(* batches, none of them skipped, makes floor(n / k) steps, so e completed *)
(* epochs make e * floor(n / k) steps.                                     *)
C9_StepsPerEpochBoundary ==
    arch # "none" =>
        LET k == tcfg.accumulate_grad_batches
            n == NBatches(tcfg)
        IN  /\ opt.disc_step =
                  current_epoch * Cardinality(SteppedBatches(n))
                  + Cardinality(SteppedBatches(batch_idx))
            /\ (arch = "dcgan" \/ (tcfg.batch_size > 1 /\ BatchAt(tcfg, n - 1) > 1))
                  => opt.disc_step = current_epoch * (n \div k) + batch_idx \div k

\* Two epochs of three batches with accumulate_grad_batches = 2: two steps,
\* not three.
C9_Witness ==
    /\ arch = "dcgan"
    /\ tcfg.accumulate_grad_batches = 2
    /\ NBatches(tcfg) = 3
    /\ current_epoch = 2
    /\ total_batches = 6
    /\ opt.disc_step = 2

(* C10: when the stage epochs do not sum to the trainer's max_epochs,      *)
(* on_train_start fails before any training_step runs and before a resize  *)
(* transform is installed; when they do, it succeeds and installs the      *)
(* resize transform of stage 0.                                            *)
C10_EpochBudgetChecked ==
    (arch = "stylegan" /\ phase # "init") =>
        IF SumSeq(tcfg.progressive_epochs) # tcfg.max_epochs
        THEN /\ phase = "failed"
             /\ total_batches = 0
             /\ last_step = NoStep
             /\ train_loss_list = <<>>
             /\ transforms = tcfg.transforms
        ELSE /\ phase # "failed"
             /\ current_epoch = 0 =>
                  /\ ~transforms.none
                  /\ Cardinality({i \in 1..Len(transforms.items) :
                        /\ transforms.items[i].kind = "Resize"
                        /\ transforms.items[i].shape =
                             <<ProgressiveSizeStartingValue,
                               ProgressiveSizeStartingValue,
                               IF tcfg.n_dimensions = 2 THEN 1
                               ELSE ProgressiveSizeStartingValue>>}) = 1

\* A schedule of 1 + 1 epochs under a trainer that runs 3: the start fails
\* and the dataset keeps the resize it had.
C10_Witness ==
    /\ arch = "stylegan"
    /\ phase = "failed"
    /\ tcfg.progressive_epochs = <<1, 1>>
    /\ tcfg.max_epochs = 3
    /\ ~transforms.none
    /\ transforms.items = <<Other(1), OldResize, Other(2)>>

----------------------------------------------------------------------------
(* The stage schedule of the StyleGAN module.                              *)

\* The epochs the first n stages take together.
CumulativeQuota(pe, n) == SumSeq(SubSeq(pe, 1, n))

\* The stages whose cumulative quota is at most e.
StagesCompleted(pe, e) ==
    Cardinality({n \in 1..Len(pe) : CumulativeQuota(pe, n) <= e})

\* After current_epoch completed epochs the stage index counts the finished
\* stages, and at an epoch start the counter lies below the stage's quota.
StageMatchesEpochs ==
    /\ current_step = StagesCompleted(tcfg.progressive_epochs, current_epoch)
    /\ (phase = "training" /\ batch_idx = 0) =>
           /\ current_step + 1 <= Len(tcfg.progressive_epochs)
           /\ 0 <= current_epoch_in_progressive_epoch
           /\ current_epoch_in_progressive_epoch
                  < tcfg.progressive_epochs[current_step + 1]

(* C11: at each StyleGAN epoch end the epochs-in-stage counter grows by    *)
(* one; when it reaches the quota of the current stage the stage index     *)
(* advances by exactly one and the counter resets to 0, otherwise the      *)
(* stage index is unchanged.  After e completed epochs the stage index is  *)
(* the number of stages whose cumulative quota is at most e, and at every  *)
(* epoch start 0 <= epochs-in-stage < quota of the current stage.          *)
C11_StageAdvancesOnQuota ==
    [][arch = "stylegan" =>
          /\ StageMatchesEpochs
          /\ StageMatchesEpochs'
          /\ current_epoch' # current_epoch =>
                LET quota == tcfg.progressive_epochs[current_step + 1]
                    grown == current_epoch_in_progressive_epoch + 1
                IN  /\ current_epoch' = current_epoch + 1
                    /\ IF grown = quota
                       THEN /\ current_step' = current_step + 1
                            /\ current_epoch_in_progressive_epoch' = 0
                       ELSE /\ current_step' = current_step
                            /\ current_epoch_in_progressive_epoch' = grown
          /\ current_epoch' = current_epoch =>
                /\ current_step' = current_step
                /\ current_epoch_in_progressive_epoch'
                       = current_epoch_in_progressive_epoch]_vars

\* The second stage of a <<2, 1>> schedule has begun: one epoch end kept the
\* stage, the next one advanced it.
C11_Witness ==
    /\ arch = "stylegan"
    /\ tcfg.progressive_epochs = <<2, 1>>
    /\ phase = "training"
    /\ current_epoch = 2
    /\ current_step = 1
    /\ current_epoch_in_progressive_epoch = 0

----------------------------------------------------------------------------
(* The resize transform of the data pipeline.                              *)

TransformList(ts) == IF ts.none THEN <<>> ELSE ts.items
CountResize(items) == Cardinality({i \in 1..Len(items) : IsResize(items[i])})
NonResize(items) == SelectSeq(items, LAMBDA t : ~IsResize(t))

(* C12: for a dataset whose transform list initially holds at most one     *)
(* Resize, the list is untouched before on_train_start has succeeded;      *)
(* afterwards, over every number of stage advances, it holds exactly one   *)
(* Resize, its length is the initial one (plus one when no Resize was      *)
(* present), and the transforms that are no Resize are the initial ones in *)
(* the initial order.                                                      *)
C12_ResizeReplacedNotStacked ==
    (arch = "stylegan" /\ CountResize(TransformList(tcfg.transforms)) <= 1) =>
        LET before == TransformList(tcfg.transforms)
            now == TransformList(transforms)
        IN  IF phase = "init" \/ ~EpochsMatch(tcfg)
            THEN transforms = tcfg.transforms
            ELSE /\ CountResize(now) = 1
                 /\ Len(now) = Len(before)
                                + (IF CountResize(before) = 0 THEN 1 ELSE 0)
                 /\ NonResize(now) = NonResize(before)

\* A 3D run whose list held one Resize between two other transforms has
\* advanced to the second stage: the Resize of that stage took its place.
C12_Witness ==
    /\ arch = "stylegan"
    /\ tcfg.transforms.items = <<Other(1), OldResize, Other(2)>>
    /\ current_step = 1
    /\ transforms.items = <<Other(1), Resize(<<8, 8, 8>>), Other(2)>>

----------------------------------------------------------------------------
(* Skipped batches.                                                        *)

\* What a training step does to gradients and parameters.
GradientEvents ==
    {"backward_disc", "backward_gen", "step_disc", "step_gen",
     "zero_grad_disc", "zero_grad_gen"}

(* C13: a StyleGAN training_step on a batch of one sample changes neither  *)
(* alpha, the stage index, the epochs-in-stage counter, the loss history   *)
(* nor the optimizers, makes no backward pass, optimizer step or zero_grad,*)
(* and leaves the trainer running, so that the next step or epoch end      *)
(* follows.                                                                *)
C13_SingleSampleBatchSkipped ==
    [][(/\ arch = "stylegan"
        /\ phase = "training"
        /\ batch_idx < NBatches(tcfg)
        /\ batch_idx' = batch_idx + 1
        /\ BatchAt(tcfg, batch_idx) = 1) =>
          /\ alpha' = alpha
          /\ current_step' = current_step
          /\ current_epoch_in_progressive_epoch'
                 = current_epoch_in_progressive_epoch
          /\ train_loss_list' = train_loss_list
          /\ opt' = opt
          /\ transforms' = transforms
          /\ last_step'.skipped
          /\ Range(last_step'.trace) \cap GradientEvents = {}
          /\ phase' = "training"]_vars

\* Three samples in batches of two: the second batch of the first epoch was
\* skipped, and the first batch of the second epoch has been trained on.
C13_Witness ==
    /\ arch = "stylegan"
    /\ tcfg.dataset_size = 3
    /\ tcfg.batch_size = 2
    /\ current_epoch = 1
    /\ batch_idx = 1
    /\ total_batches = 3
    /\ Len(train_loss_list) = 2
    /\ ~last_step.skipped
    /\ "backward_disc" \in Range(last_step.trace)

----------------------------------------------------------------------------
(* The fixed-seed preview and the random stream of training.               *)

(* C14: fixed-seed latent generation leaves the random stream of the       *)
(* module as it found it: over every epoch end, with or without a preview, *)
(* the generator the module draws from has the state it had before, so the *)
(* next draw of training is the same; and two preview batches of the same  *)
(* size get identical latent vectors.                                      *)
C14_FixedLatentLeavesStreamAlone ==
    [][(arch # "none" /\ current_epoch' # current_epoch) =>
          /\ rng'[tcfg.device] = rng[tcfg.device]
          /\ \A i, j \in 1..Len(preview'.latents) :
                 preview'.sizes[i] = preview'.sizes[j] =>
                     preview'.latents[i] = preview'.latents[j]]_vars

----------------------------------------------------------------------------
(* SpecModule: direct calls of the methods of a module while the trainer is *)
(* idle.  The module has the settings of ModuleSettings and the training   *)
(* state that its own fit left: the calls are made on a module that was    *)
(* never fitted, or after the fit of a short run has finished.  A module   *)
(* whose configure_optimizers raises cannot be fitted.                     *)

\* Short runs: one or MaxStages stages of one epoch each (a DCGAN run of as
\* many epochs), two or three samples in batches of two, so that a fit ends
\* with alpha at 1.0 or, the last sample being skipped, below it.
ModuleConfigs(module) ==
    {Merge(TrainConfig(1, IF module = "dcgan" THEN <<>>
                          ELSE [i \in 1..n |-> 1],
                       <<0, 1>>, n, ds, 2, p), t) :
        n \in {1, MaxStages}, ds \in {2, 3},
        p \in {q \in AuxConfigs : q.transforms.none},
        t \in ModuleSettings}

\* The module after construction; the trainer is about to fit it ("init")
\* or is not used ("done").
InitModule ==
    /\ fs = {} /\ fs0 = {} /\ dir_calls = <<>> /\ procs = NoProcs
    /\ InfInit
    /\ arch \in {"dcgan", "stylegan"}
    /\ tcfg \in ModuleConfigs(arch)
    /\ phase \in {"init", "done"}
    /\ current_epoch = 0
    /\ batch_idx = 0
    /\ alpha = Exactly(tcfg.alpha)
    /\ current_step = 0
    /\ current_epoch_in_progressive_epoch = 0
    /\ train_loss_list = <<>>
    /\ transforms = tcfg.transforms
    /\ opt = NoOpt
    /\ last_step = NoStep
    /\ total_batches = 0
    /\ preview = NoPreview
    /\ rng = FreshRng
    /\ last_call = NoCall

NextModule ==
    \/ FitConfigureOptimizersRaises
    \/ DCGANTrainStart
    \/ StyleGANOnTrainStart
    \/ DCGANTrainingStep
    \/ StyleGANTrainingStep
    \/ DCGANOnTrainEpochEnd
    \/ StyleGANOnTrainEpochEnd
    \/ ValidationStep
    \/ TestStep
    \/ ConfigureOptimizers
    \/ PredictStep

SpecModule == InitModule /\ [][NextModule]_vars

\* What training writes in a module.
TrainingState ==
    <<alpha, current_step, current_epoch_in_progressive_epoch,
      train_loss_list, opt, transforms>>

(* C15: validation_step and test_step of the DCGAN and of the StyleGAN     *)
(* module fail with a NotImplementedError and leave alpha, the stage       *)
(* counters, the loss history, the optimizers and the random generators as *)
(* they were.                                                              *)
C15_EvaluationStepsNotImplemented ==
    [][last_call'.op \in {"validation_step", "test_step"} =>
          /\ last_call'.error = "NotImplementedError"
          /\ TrainingState' = TrainingState
          /\ rng' = rng]_vars

\* test_step was called on a StyleGAN module whose fit of one stage, three
\* samples in batches of two, left alpha at 2/3 as floats add it up.
C15_Witness ==
    /\ arch = "stylegan"
    /\ last_call.op = "test_step"
    /\ last_call.error = "NotImplementedError"
    /\ alpha = Rounded(<<2, 3>>)
    /\ current_step = 1
    /\ Len(train_loss_list) = 1
    /\ opt.disc_step = 1

(* C16: in both modules a scheduler config that names exactly one of       *)
(* "generator" and "discriminator" makes configure_optimizers fail and     *)
(* build no scheduler; one that names both builds each scheduler from its  *)
(* own entry; one that names neither builds both from the whole config;    *)
(* and without a scheduler config only the two optimizers are returned,    *)
(* the discriminator's first.                                              *)
C16_SchedulersBothOrNeither ==
    last_call.op = "configure_optimizers" =>
        LET config == tcfg.schedulers.dict
            names_disc == "discriminator" \in DOMAIN config
            names_gen == "generator" \in DOMAIN config
            optimizers == <<"disc_optimizer", "gen_optimizer">>
        IN  IF tcfg.schedulers.none
            THEN /\ last_call.error = "none"
                 /\ last_call.out.optimizers = optimizers
                 /\ last_call.out.schedulers = <<>>
            ELSE IF names_disc # names_gen
            THEN /\ last_call.error # "none"
                 /\ last_call.out.optimizers = <<>>
                 /\ last_call.out.schedulers = <<>>
            ELSE /\ last_call.error = "none"
                 /\ last_call.out.optimizers = optimizers
                 /\ Len(last_call.out.schedulers) = 2
                 /\ last_call.out.schedulers[1].optimizer = "disc_optimizer"
                 /\ last_call.out.schedulers[2].optimizer = "gen_optimizer"
                 /\ IF names_disc
                    THEN /\ last_call.out.schedulers[1].config
                               = config["discriminator"]
                         /\ last_call.out.schedulers[2].config
                               = config["generator"]
                    ELSE /\ last_call.out.schedulers[1].config = config
                         /\ last_call.out.schedulers[2].config = config

\* A StyleGAN config that names the generator only was rejected.
C16_Witness ==
    /\ arch = "stylegan"
    /\ last_call.op = "configure_optimizers"
    /\ ~tcfg.schedulers.none
    /\ DOMAIN tcfg.schedulers.dict = {"generator", "type"}
    /\ last_call.error = "AssertionError"

\* The transforms predict_step has to apply, in order.
ConfiguredPostprocessing ==
    IF tcfg.postprocessing_transforms.none THEN <<>>
    ELSE tcfg.postprocessing_transforms.items

(* C17: a predict_step call of either module changes neither alpha, the    *)
(* stage index, the epochs-in-stage counter, the loss history, the         *)
(* optimizers nor the dataset's transforms and is no training step; the    *)
(* images it returns have passed through every configured postprocessing   *)
(* transform, in list order (the DCGAN module then maps them to [0, 1]).   *)
C17_PredictHasNoTrainingEffect ==
    [][last_call'.op = "predict_step" =>
          /\ TrainingState' = TrainingState
          /\ last_step' = last_step
          /\ total_batches' = total_batches
          /\ last_call'.error = "none" =>
                last_call'.out.applied =
                    ConfiguredPostprocessing
                    \o (IF arch = "dcgan" THEN <<"to_unit_range">>
                        ELSE <<>>)]_vars

\* A DCGAN module with two postprocessing transforms, fitted for two epochs
\* of one batch, has generated two images.
C17_Witness ==
    /\ arch = "dcgan"
    /\ last_call.op = "predict_step"
    /\ last_call.error = "none"
    /\ Len(last_call.out.latent) = 2
    /\ last_call.out.applied = <<"t2", "t1", "to_unit_range">>
    /\ train_loss_list = <<LossDict(0, 0), LossDict(1, 0)>>
    /\ opt.gen_step = 2 /\ opt.disc_step = 2
    /\ opt.gen.applied = <<<<1, 0>>>>

(* C18: a StyleGAN predict_step generates at alpha = 1.0 and at the stage  *)
(* model_config.default_forward_step, whatever alpha and stage index the   *)
(* module has from training; when the configuration has no default stage   *)
(* the call fails with a ValueError and generates nothing.                 *)
C18_InferenceAtFullAlphaDefaultStage ==
    (arch = "stylegan" /\ last_call.op = "predict_step") =>
        IF tcfg.default_forward_step.present
        THEN /\ last_call.error = "none"
             /\ last_call.out.alpha = One
             /\ last_call.out.step = tcfg.default_forward_step.value
             /\ last_call.out.latent # <<>>
        ELSE /\ last_call.error = "ValueError"
             /\ last_call.out = NoImages

\* A module that its fit left past its only stage with alpha at 2/3 has
\* generated at the first stage, the configured default, with alpha = 1.
C18_Witness ==
    /\ arch = "stylegan"
    /\ alpha = Rounded(<<2, 3>>)
    /\ current_step = 1
    /\ tcfg.default_forward_step = [present |-> TRUE, value |-> 0]
    /\ last_call.op = "predict_step"
    /\ last_call.error = "none"
    /\ last_call.out.alpha = One
    /\ last_call.out.step = 0

----------------------------------------------------------------------------
(* The layout of the saved images.                                         *)

\* The samples the inference_step calls generated, in order.
GeneratedSamples ==
    Flatten([c \in 1..Len(calls) |-> [j \in 1..calls[c].n |-> <<c, j>>]])

(* C19: every batch is brought to channel-last layout before it is saved:  *)
(* a 2D sample is saved as (H, W, C) and a 3D sample as (H, W, D, C), the  *)
(* batch axis stays first, and so the saved samples are the generated ones *)
(* in the order of generation.                                             *)
C19_ChannelLastBatchFirst ==
    mgr = "done" =>
        /\ \A i \in 1..Len(saved) :
              saved[i].layout = IF cfg.n_dimensions = 2
                                THEN <<"H", "W", "C">>
                                ELSE <<"H", "W", "D", "C">>
        /\ [i \in 1..Len(saved) |-> saved[i].image] = GeneratedSamples

\* A 3D run has saved the three samples of two batches.
C19_Witness ==
    /\ mgr = "done"
    /\ cfg.n_dimensions = 3
    /\ Len(calls) = 2
    /\ Len(saved) = 3
    /\ saved[3].image = <<2, 1>>
    /\ saved[3].layout = <<"H", "W", "D", "C">>

----------------------------------------------------------------------------
(* The growth of alpha.                                                    *)

(* C20: a StyleGAN training step on a batch of more than one sample turns  *)
(* alpha into min(alpha + batch_size / (progressive_epochs[stage] *        *)
(* dataset_size), 1.0), with the stage index the batch was trained at; no  *)
(* other step (a skipped batch, on_train_start, an epoch end with its      *)
(* preview and stage advance, predict_step) changes alpha.                 *)
C20_AlphaIncrementPerBatch ==
    [][arch = "stylegan" =>
          IF /\ phase = "training"
             /\ batch_idx' = batch_idx + 1
             /\ BatchAt(tcfg, batch_idx) # 1
          THEN LET batch_size == BatchAt(tcfg, batch_idx)
                   denominator == tcfg.progressive_epochs[current_step + 1]
                                  * tcfg.dataset_size
                   \* alpha + batch_size / denominator as a fraction
                   sum_num == alpha.value[1] * denominator
                              + batch_size * alpha.value[2]
                   sum_den == alpha.value[2] * denominator
               IN  IF sum_num > sum_den
                   THEN alpha' = Exactly(One)
                   ELSE /\ alpha'.value[1] * sum_den
                              = sum_num * alpha'.value[2]
                        /\ alpha'.rounded =>
                              (alpha.rounded
                               \/ ~IsFloat(Frac(batch_size, denominator)))
          ELSE alpha' = alpha]_vars

\* Four samples in batches of two, a first stage of two epochs, alpha
\* starting at 0: the first step has brought alpha to 2 / (2 * 4).
C20_Witness ==
    /\ arch = "stylegan"
    /\ tcfg.alpha = <<0, 1>>
    /\ tcfg.dataset_size = 4
    /\ tcfg.batch_size = 2
    /\ tcfg.progressive_epochs[1] = 2
    /\ total_batches = 1
    /\ alpha = Exactly(<<1, 4>>)

----------------------------------------------------------------------------
(* The blending of a stage.                                                *)

\* The samples of the batches of this epoch that were handed to
\* training_step so far.
SamplesOfEpoch ==
    SumSeq([i \in 1..batch_idx |-> BatchAt(tcfg, i - 1)])

\* The samples handed to training_step since the current stage began.
SamplesOfStage ==
    current_epoch_in_progressive_epoch * tcfg.dataset_size + SamplesOfEpoch

(* C21: in a StyleGAN run that starts with alpha = 0, in every stage, the  *)
(* first included and every later one, alpha is below 1.0 at the first     *)
(* batch of the stage and is 1.0 only once epochs_in_stage * dataset_size  *)
(* samples of that stage have been processed.                              *)
C21_AlphaBlendsInEveryStage ==
    (/\ arch = "stylegan"
     /\ tcfg.alpha = <<0, 1>>
     /\ phase = "training") =>
        /\ (current_epoch_in_progressive_epoch = 0 /\ batch_idx = 0) =>
               alpha # Exactly(One)
        /\ alpha = Exactly(One) =>
               SamplesOfStage >= tcfg.progressive_epochs[current_step + 1]
                                 * tcfg.dataset_size

----------------------------------------------------------------------------
(* The resize transform of a stage.                                        *)

\* A training step of the StyleGAN module is about to run.
StyleGANStepRuns ==
    arch = "stylegan" /\ phase = "training" /\ batch_idx < NBatches(tcfg)

\* The resize transform the module installed: the first Resize of the
\* dataset's transforms.
InstalledResize ==
    LET i == CHOOSE i \in 1..Len(transforms.items) :
                /\ IsResize(transforms.items[i])
                /\ \A j \in 1..(i - 1) : ~IsResize(transforms.items[j])
    IN  transforms.items[i]

\* s = progressive_size_starting_value * progressive_size_growth_factor ^ step
StageResolution(step) ==
    ProgressiveSizeStartingValue * Pow(ProgressiveSizeGrowthFactor, step)

(* C22: whenever a StyleGAN training step runs, the dataset's transforms   *)
(* hold a resize transform and the one the module installed targets the    *)
(* resolution s of the current stage, with shape [s, s, 1] for a 2D model  *)
(* and [s, s, s] for a 3D model.                                           *)
C22_ResizeTargetsCurrentStage ==
    StyleGANStepRuns =>
        LET s == StageResolution(current_step)
        IN  /\ ~transforms.none
            /\ \E i \in 1..Len(transforms.items) :
                   IsResize(transforms.items[i])
            /\ tcfg.n_dimensions = 2 =>
                   InstalledResize.shape = <<s, s, 1>>
            /\ tcfg.n_dimensions = 3 =>
                   InstalledResize.shape = <<s, s, s>>

C22_Witness ==
    /\ StyleGANStepRuns
    /\ tcfg.n_dimensions = 3
    /\ current_step = 1
    /\ InstalledResize.shape = <<8, 8, 8>>

----------------------------------------------------------------------------
(* The order of the events of a training step.                             *)

\* The position of an event in a trace, 0 when it does not occur.
PositionOf(trace, ev) ==
    IF \E i \in 1..Len(trace) : trace[i] = ev
    THEN CHOOSE i \in 1..Len(trace) :
             trace[i] = ev /\ \A j \in 1..(i - 1) : trace[j] # ev
    ELSE 0

\* ev occurs once in the trace, and before later does.
OnceBefore(trace, ev, later) ==
    /\ CountOf(trace, ev) = 1
    /\ PositionOf(trace, ev) < PositionOf(trace, later)

\* backward, clip, then step and zero_grad together or not at all.
NetworkEventsInOrder(trace, net) ==
    /\ OnceBefore(trace, "backward_" \o net, "clip_" \o net)
    /\ CountOf(trace, "clip_" \o net) = 1
    /\ CountOf(trace, "step_" \o net) = CountOf(trace, "zero_grad_" \o net)
    /\ CountOf(trace, "step_" \o net) <= 1
    /\ CountOf(trace, "step_" \o net) = 1 =>
           /\ PositionOf(trace, "step_" \o net)
                  = PositionOf(trace, "clip_" \o net) + 1
           /\ PositionOf(trace, "zero_grad_" \o net)
                  = PositionOf(trace, "step_" \o net) + 1

DCGANStepDone == arch = "dcgan" /\ last_step.trace # <<>>

(* C23: in every DCGAN training step all events of the generator phase     *)
(* (backward, clip, the conditional step and zero_grad) come before the    *)
(* discriminator phase begins, and for each network the events of the      *)
(* batch occur once each in the order backward, clip, step, zero_grad.     *)
C23_DCGANGeneratorPhaseFirst ==
    DCGANStepDone =>
        LET trace == last_step.trace
            disc_begins == PositionOf(trace, "toggle_disc")
        IN  /\ disc_begins > 0
            /\ \A ev \in {"toggle_gen", "backward_gen", "clip_gen",
                           "step_gen", "zero_grad_gen", "untoggle_gen"} :
                   PositionOf(trace, ev) < disc_begins
            /\ \A ev \in {"backward_disc", "clip_disc", "step_disc",
                           "zero_grad_disc"} :
                   PositionOf(trace, ev) \in {0} \cup (disc_begins + 1)..Len(trace)
            /\ NetworkEventsInOrder(trace, "gen")
            /\ NetworkEventsInOrder(trace, "disc")

C23_Witness ==
    /\ DCGANStepDone
    /\ CountOf(last_step.trace, "step_gen") = 1
    /\ CountOf(last_step.trace, "step_disc") = 1
    /\ tcfg.accumulate_grad_batches = 2
    /\ last_step.batch_idx = 1

StyleGANStepDone ==
    arch = "stylegan" /\ last_step.trace # <<>> /\ ~last_step.skipped

(* C24: in every StyleGAN training step that is not skipped, the           *)
(* discriminator phase, with its optimizer step when the batch is an       *)
(* accumulation boundary, is over before the generator phase scores the    *)
(* fakes: the score of the generator loss is a second evaluation, not the  *)
(* detached one of the discriminator loss, made after the discriminator    *)
(* update and before the generator's backward pass.                        *)
C24_StyleGANCriticUpdatedBeforeGeneratorScore ==
    StyleGANStepDone =>
        LET trace == last_step.trace
            scored == PositionOf(trace, "score_fake")
        IN  /\ CountOf(trace, "score_fake") = 1
            /\ OnceBefore(trace, "score_fake_detached", "backward_disc")
            /\ \A ev \in {"toggle_disc", "gradient_penalty", "backward_disc",
                           "clip_disc", "untoggle_disc", "toggle_gen"} :
                   OnceBefore(trace, ev, "score_fake")
            /\ \A ev \in {"step_disc", "zero_grad_disc"} :
                   PositionOf(trace, ev) < scored
            /\ AccumulationBoundary(last_step.batch_idx,
                                    tcfg.accumulate_grad_batches) =>
                   OnceBefore(trace, "step_disc", "score_fake")
            /\ OnceBefore(trace, "score_fake", "backward_gen")

C24_Witness ==
    /\ StyleGANStepDone
    /\ tcfg.accumulate_grad_batches = 2
    /\ last_step.batch_idx = 1
    /\ PositionOf(last_step.trace, "step_disc") > 0
    /\ PositionOf(last_step.trace, "step_disc")
          < PositionOf(last_step.trace, "score_fake")

----------------------------------------------------------------------------
(* Training runs over the preview settings: one batch of two samples per   *)
(* epoch, every combination of dimensionality, preview interval, number of *)
(* preview images and preview batch size.                                  *)

PreviewSettings ==
    {Merge([n_dimensions |-> d, save_eval_images_every_n_epochs |-> e,
            n_fixed_images_to_generate |-> n, fixed_images_batch_size |-> b,
            transforms |-> [none |-> TRUE, items |-> <<>>]], t) :
        d \in {2, 3}, e \in (-1)..MaxInterval, n \in 0..MaxFixedImages,
        b \in 1..MaxFixedBatch, t \in {t \in TrainSettings : t.device = "cpu"}}

PreviewRunConfigs(module) ==
    {TrainConfig(1, IF module = "dcgan" THEN <<>> ELSE <<1, MaxEpochs - 1>>,
                 <<0, 1>>, MaxEpochs, 2, 2, aux) : aux \in PreviewSettings}

\* The module and the trainer before fit, for the configuration chosen.
FreshRun ==
    /\ fs = {} /\ fs0 = {} /\ dir_calls = <<>> /\ procs = NoProcs
    /\ InfInit
    /\ phase = "init"
    /\ current_epoch = 0
    /\ batch_idx = 0
    /\ alpha = Exactly(tcfg.alpha)
    /\ current_step = 0
    /\ current_epoch_in_progressive_epoch = 0
    /\ train_loss_list = <<>>
    /\ transforms = tcfg.transforms
    /\ opt = NoOpt
    /\ last_step = NoStep
    /\ total_batches = 0
    /\ preview = NoPreview
    /\ rng = FreshRng
    /\ last_call = NoCall

InitPreview ==
    /\ arch \in {"dcgan", "stylegan"}
    /\ tcfg \in PreviewRunConfigs(arch)
    /\ FreshRun

SpecPreview == InitPreview /\ [][NextTrain]_vars

\* on_train_epoch_end runs in this step.
EpochEnds == current_epoch' = current_epoch + 1

(* C25: on_train_epoch_end generates the preview set exactly when the      *)
(* model is 2D, save_eval_images_every_n_epochs is positive and the epoch  *)
(* is a multiple of it; otherwise it generates nothing.  When it does, it  *)
(* generates n_fixed_images_to_generate images in batches of at least one  *)
(* and at most fixed_images_batch_size images.                             *)
C25_PreviewExactlyWhenDue ==
    [][EpochEnds =>
        LET interval == tcfg.save_eval_images_every_n_epochs
            due == /\ tcfg.n_dimensions = 2
                   /\ interval > 0
                   /\ IF interval > 0 THEN current_epoch % interval = 0
                      ELSE FALSE
        IN  /\ preview'.made = due
            /\ ~due => preview' = NoPreview
            /\ due =>
                   /\ preview'.epoch = current_epoch
                   /\ SumSeq(preview'.sizes) = tcfg.n_fixed_images_to_generate
                   /\ Len(preview'.latents) = Len(preview'.sizes)
                   /\ \A i \in 1..Len(preview'.sizes) :
                          preview'.sizes[i] \in 1..tcfg.fixed_images_batch_size]_vars

C25_Witness ==
    /\ preview.made
    /\ preview.epoch = 2
    /\ tcfg.save_eval_images_every_n_epochs = 2
    /\ tcfg.n_fixed_images_to_generate = 5
    /\ preview.sizes = <<3, 2>>

\* self.global_rank of the only process
ProcessRank == 0

\* The paths the preview images were written to:
\* eval_images/epoch_{epoch}/fake_image_{index}_{process_rank}.png
PreviewPaths(p) ==
    {<<"eval_images", p.epoch, p.indices[j], ProcessRank>> :
        j \in 1..Len(p.indices)}

(* C26: the file index i*n + n does not keep the preview files apart: the  *)
(* first image of every batch gets index 0, so as soon as a preview takes  *)
(* more than one batch two of its images are written to the same path and  *)
(* fewer than n_fixed_images_to_generate files remain; a preview of one    *)
(* batch leaves one file per image.                                        *)
C26_PreviewFileIndexCollides ==
    preview.made =>
        /\ Len(preview.indices) = tcfg.n_fixed_images_to_generate
        /\ Len(preview.sizes) >= 2 =>
               /\ Cardinality(PreviewPaths(preview))
                      < tcfg.n_fixed_images_to_generate
               /\ \E j, k \in 1..Len(preview.indices) :
                      j # k /\ preview.indices[j] = preview.indices[k]
        /\ Len(preview.sizes) <= 1 =>
               Cardinality(PreviewPaths(preview))
                   = tcfg.n_fixed_images_to_generate

C26_Witness ==
    /\ preview.made
    /\ tcfg.n_fixed_images_to_generate = 4
    /\ tcfg.fixed_images_batch_size = 2
    /\ preview.indices = <<0, 1, 0, 2>>
    /\ Cardinality(PreviewPaths(preview)) = 3

----------------------------------------------------------------------------
(* The two optimizers and the gradients they apply.                        *)

\* A training_step runs in this step of the run.
TrainingStepRuns == total_batches' = total_batches + 1

(* C28: after any sequence of training steps the generator optimizer and   *)
(* the discriminator optimizer have been stepped equally often, and on the *)
(* same batches: a training step steps both of them or neither.            *)
C28_OptimizersSteppedTogether ==
    [][TrainingStepRuns =>
        /\ opt.gen_step = opt.disc_step
        /\ opt'.gen_step = opt'.disc_step
        /\ opt'.gen_step - opt.gen_step
              = CountOf(last_step'.trace, "step_gen")
        /\ CountOf(last_step'.trace, "step_gen")
              = CountOf(last_step'.trace, "step_disc")
        /\ CountOf(last_step'.trace, "step_gen") = 1 =>
               /\ opt'.gen.applied # <<>>
               /\ opt'.gen.applied[Len(opt'.gen.applied)]
                     = <<current_epoch, batch_idx>>
               /\ opt'.disc.applied[Len(opt'.disc.applied)]
                     = <<current_epoch, batch_idx>>]_vars

C28_Witness ==
    /\ arch = "stylegan"
    /\ tcfg.accumulate_grad_batches = 2
    /\ opt.gen_step = 2 /\ opt.disc_step = 2
    /\ total_batches = 6
    /\ last_step.skipped

\* The batches are k consecutive batches of one epoch.
ConsecutiveOfOneEpoch(batches, k) ==
    /\ Len(batches) = k
    /\ \A i \in 1..Len(batches) :
           /\ batches[i][1] = batches[1][1]
           /\ batches[i][2] = batches[1][2] + (i - 1)

(* C29: every optimizer step applies the gradients of exactly              *)
(* accumulate_grad_batches consecutive batches of one epoch, and when the  *)
(* run has ended no gradient is left that was neither applied nor zeroed.  *)
C29_StepAppliesOneWindow ==
    (arch # "none" /\ phase \in {"training", "done"}) =>
        /\ \A g \in {opt.gen, opt.disc} :
               g.applied # <<>> =>
                   ConsecutiveOfOneEpoch(g.applied,
                                         tcfg.accumulate_grad_batches)
        /\ phase = "done" => (opt.gen.grad = <<>> /\ opt.disc.grad = <<>>)

----------------------------------------------------------------------------
(* The stage index and the schedule.                                       *)

\* The stages of the schedule, as values of current_step.
ScheduleStages == 0..(Len(tcfg.progressive_epochs) - 1)

(* C30: throughout a StyleGAN run whose stage epochs sum to max_epochs,    *)
(* after the on_train_epoch_end of the final epoch included, current_step  *)
(* is an index of the progressive schedule and the resize transform        *)
(* installed in the dataset is that of a stage of the schedule.            *)
C30_StageIndexWithinSchedule ==
    (arch = "stylegan" /\ EpochsMatch(tcfg) /\ phase \in {"training", "done"})
        => /\ current_step \in ScheduleStages
           /\ \E step \in ScheduleStages :
                  InstalledResize.shape
                      = <<StageResolution(step), StageResolution(step),
                          IF tcfg.n_dimensions = 2 THEN 1
                          ELSE StageResolution(step)>>

----------------------------------------------------------------------------
(* Training runs in which an operation of training_step may raise.  The    *)
(* error leaves training_step at that operation and ends the run.          *)

\* The operations of a training step that can raise: the forward passes,
\* the backward passes, gradient clipping and the optimizer steps.
FallibleEvents ==
    {"generate", "score_fake", "score_real", "score_fake_detached",
     "gradient_penalty", "backward_gen", "backward_disc", "clip_gen",
     "clip_disc", "step_gen", "step_disc"}

\* The trace of a step whose i-th operation raises.
RaisedAt(trace, i) == SubSeq(trace, 1, i - 1) \o <<"raise">>

\* The draws a StyleGAN step has made when it is left: the latent vector
\* first, the weights of the gradient penalty when that was computed.
StyleGANRngAfter(r, device, batch_size, trace) ==
    IF CountOf(trace, "gradient_penalty") > 0
    THEN StyleGANStepRng(r, device, batch_size)
    ELSE GenerateLatentVector(r, device, batch_size).rng

\* The generators a StyleGAN step may leave when its i-th operation raises.
\* _compute_gradient_penalty draws its weights (torch.rand) before it calls
\* the discriminator and torch.autograd.grad, so an error inside it comes
\* before or after that draw.
StyleGANRngsAtRaise(r, device, batch_size, whole, i) ==
    IF whole[i] = "gradient_penalty"
    THEN {GenerateLatentVector(r, device, batch_size).rng,
          StyleGANStepRng(r, device, batch_size)}
    ELSE {StyleGANRngAfter(r, device, batch_size, RaisedAt(whole, i))}

FaultRunConfigs(module) ==
    {TrainConfig(k, IF module = "dcgan" THEN <<>> ELSE <<1, 1>>, <<0, 1>>,
                 2, ds, 2, aux) :
        k \in 1..MaxAccumulate, ds \in {3, 4}, aux \in AuxConfigs}

InitFaults ==
    /\ arch \in {"dcgan", "stylegan"}
    /\ tcfg \in FaultRunConfigs(arch)
    /\ FreshRun

\* UnlabeledDCGANModule.training_step, left by an error of one of its
\* operations.
DCGANTrainingStepRaises ==
    /\ arch = "dcgan" /\ phase = "training" /\ batch_idx < NBatches(tcfg)
    /\ LET whole == DCGANStepTrace(batch_idx, tcfg.accumulate_grad_batches)
       IN  \E i \in 1..Len(whole) :
              /\ whole[i] \in FallibleEvents
              /\ opt' = OptAfter(opt, RaisedAt(whole, i), current_epoch,
                                 batch_idx)
              /\ last_step' = [batch_idx |-> batch_idx,
                               batch_size |-> BatchAt(tcfg, batch_idx),
                               skipped |-> FALSE, trace |-> RaisedAt(whole, i)]
    /\ rng' = DCGANStepRng(rng, tcfg.device, BatchAt(tcfg, batch_idx))
    /\ phase' = "failed"
    /\ batch_idx' = batch_idx + 1
    /\ total_batches' = total_batches + 1
    /\ UNCHANGED <<dir_vars, inf_vars, last_call, arch, tcfg,
                   current_epoch, alpha, current_step,
                   current_epoch_in_progressive_epoch, train_loss_list,
                   transforms, preview>>

\* UnlabeledStyleGANModule.training_step on a batch of more than one
\* sample, left by an error of one of its operations.
StyleGANTrainingStepRaises ==
    /\ arch = "stylegan" /\ phase = "training" /\ batch_idx < NBatches(tcfg)
    /\ ~SkipsBatch(BatchAt(tcfg, batch_idx))
    /\ LET whole == StyleGANStepTrace(batch_idx, tcfg.accumulate_grad_batches)
       IN  \E i \in 1..Len(whole) :
              /\ whole[i] \in FallibleEvents
              /\ opt' = OptAfter(opt, RaisedAt(whole, i), current_epoch,
                                 batch_idx)
              /\ rng' \in StyleGANRngsAtRaise(rng, tcfg.device,
                                               BatchAt(tcfg, batch_idx),
                                               whole, i)
              /\ last_step' = [batch_idx |-> batch_idx,
                               batch_size |-> BatchAt(tcfg, batch_idx),
                               skipped |-> FALSE, trace |-> RaisedAt(whole, i)]
    /\ phase' = "failed"
    /\ batch_idx' = batch_idx + 1
    /\ total_batches' = total_batches + 1
    /\ UNCHANGED <<dir_vars, inf_vars, last_call, arch, tcfg,
                   current_epoch, alpha, current_step,
                   current_epoch_in_progressive_epoch, train_loss_list,
                   transforms, preview>>

NextFaults ==
    \/ NextTrain
    \/ DCGANTrainingStepRaises
    \/ StyleGANTrainingStepRaises

SpecFaults == InitFaults /\ [][NextFaults]_vars

\* The networks whose optimizer is toggled after the events of a trace.
RECURSIVE ToggledAfter(_, _)
ToggledAfter(toggled, trace) ==
    IF trace = <<>> THEN toggled
    ELSE LET ev == Head(trace)
             next == IF ev = "toggle_gen" THEN toggled \cup {"gen"}
                     ELSE IF ev = "toggle_disc" THEN toggled \cup {"disc"}
                     ELSE IF ev = "untoggle_gen" THEN toggled \ {"gen"}
                     ELSE IF ev = "untoggle_disc" THEN toggled \ {"disc"}
                     ELSE toggled
         IN  ToggledAfter(next, Tail(trace))

\* The network whose gradients or optimizer an event works on.
NetworkOf(ev) ==
    IF ev \in {"backward_gen", "clip_gen", "step_gen", "zero_grad_gen"}
    THEN {"gen"}
    ELSE IF ev \in {"backward_disc", "clip_disc", "step_disc",
                    "zero_grad_disc"}
    THEN {"disc"} ELSE {}

(* C27: in both modules the backward pass, the clipping and the optimizer  *)
(* calls of a network happen while that network's optimizer, and no other, *)
(* is toggled, and when training_step is left, by returning or by an error *)
(* of one of its operations, no optimizer is toggled.                      *)
C27_TogglesAlwaysReleased ==
    (arch # "none" /\ last_step.trace # <<>>) =>
        LET trace == last_step.trace
        IN  /\ \A i \in 1..Len(trace) :
                   LET before == ToggledAfter({}, SubSeq(trace, 1, i - 1))
                   IN  /\ Cardinality(before) <= 1
                       /\ NetworkOf(trace[i]) \subseteq before
                       /\ trace[i] \in {"toggle_gen", "toggle_disc"} =>
                              before = {}
            /\ ToggledAfter({}, trace) = {}

----------------------------------------------------------------------------
(* A rejected construction and the filesystem.                             *)

(* C31: a construction of the InferenceManager that fails the validation   *)
(* of its configuration leaves the filesystem as it found it: no output    *)
(* directory has been created for the rejected request.                    *)
C31_RejectedConstructionLeavesNoDirectory ==
    mgr = "failed" => (fs = fs0 /\ out_dir \notin fs)

----------------------------------------------------------------------------
(* The loss history.                                                       *)

(* C32: the loss history of both modules is append-only.  A training step  *)
(* that is not skipped appends one record with the keys disc_loss and      *)
(* gen_loss, that of its batch; a skipped step, an epoch end and a         *)
(* prediction append nothing; no step removes or rewrites a record.  In a  *)
(* DCGAN run, which skips nothing, the length is the number of training    *)
(* steps made.                                                             *)
C32_LossHistoryAppendOnly ==
    /\ [](arch = "dcgan" => Len(train_loss_list) = total_batches)
    /\ [][LET n == Len(train_loss_list)
          IN  /\ Len(train_loss_list') \in {n, n + 1}
              /\ SubSeq(train_loss_list', 1, n) = train_loss_list
              /\ Len(train_loss_list') = n + 1 <=>
                     (TrainingStepRuns /\ ~last_step'.skipped)
              /\ Len(train_loss_list') = n + 1 =>
                     LET record == train_loss_list'[n + 1]
                     IN  /\ DOMAIN record = {"disc_loss", "gen_loss"}
                         /\ record.disc_loss = <<"disc", current_epoch, batch_idx>>
                         /\ record.gen_loss = <<"gen", current_epoch, batch_idx>>]_vars

C32_Witness ==
    /\ arch = "stylegan"
    /\ last_step.skipped
    /\ total_batches = 6
    /\ Len(train_loss_list) = 4
    /\ phase = "done"

----------------------------------------------------------------------------
(* SpecRace: two processes call _prepare_output_directory for the same     *)
(* output directory and model directory at the same time.  A step of a     *)
(* process is one call of the operating system: an os.path.exists or an    *)
(* os.mkdir.  os.makedirs(target) asks for the directories above the       *)
(* target, from the nearest upwards, until one exists; creates the missing *)
(* ones from the top down, tolerating a FileExistsError of theirs; and     *)
(* ends with the mkdir of the target, which raises FileExistsError when    *)
(* the target exists (exist_ok is left False).                             *)

\* mkdir of the last component, as os.makedirs calls it: whether it
\* succeeded, and the file system afterwards.
MkdirExistOk(fsys, p) == [ok |-> TRUE, fs |-> fsys \cup {p}]
Mkdir(fsys, p) ==
    IF Exists(fsys, p) THEN [ok |-> FALSE, fs |-> fsys]
    ELSE [ok |-> TRUE, fs |-> fsys \cup {p}]

InitRace ==
    /\ fs \in {f \in SUBSET Universe : Consistent(f)}
    /\ fs0 = fs
    /\ dir_calls = <<>>
    /\ \E o \in OutputDirs, m \in ModelDirs :
           procs = [p \in Procs |->
                       [pc |-> "exists", base |-> PrepareOutDirPath(o, m),
                        index |-> 0, path |-> NoPath, depth |-> 0]]
    /\ InfInit
    /\ TrainIdle

\* if not os.path.exists(model_inference_output_path)
ProcExists(p) ==
    /\ procs[p].pc = "exists"
    /\ LET me == procs[p]
       IN  procs' = [procs EXCEPT ![p] =
                        IF Exists(fs, me.base)
                        THEN [me EXCEPT !.pc = "while", !.index = 1]
                        ELSE [me EXCEPT !.pc = "makedirs_exists",
                                        !.path = me.base,
                                        !.depth = Len(me.base.out)]]
    /\ UNCHANGED <<fs, fs0, dir_calls, inf_vars, train_vars>>

\* while os.path.exists(f"{model_inference_output_path}_{index}"): index += 1
ProcWhile(p) ==
    /\ procs[p].pc = "while"
    /\ LET me == procs[p]
           candidate == WithIndex(me.base, me.index)
       IN  procs' = [procs EXCEPT ![p] =
                        IF Exists(fs, candidate)
                        THEN [me EXCEPT !.index = me.index + 1]
                        ELSE [me EXCEPT !.pc = "makedirs_exists",
                                        !.path = candidate,
                                        !.depth = Len(candidate.out)]]
    /\ UNCHANGED <<fs, fs0, dir_calls, inf_vars, train_vars>>

\* The directory depth components above the target of os.makedirs.
AncestorAt(path, depth) == DirPath(SubSeq(path.out, 1, depth))

\* os.makedirs: if head and tail and not path.exists(head), for the
\* directory depth components above the target.  When it exists the
\* directory below it is created next; when it does not, the one above it
\* is asked for, and the topmost one is created without asking.
ProcMakedirsExists(p) ==
    /\ procs[p].pc = "makedirs_exists"
    /\ LET me == procs[p]
           last == Len(me.path.out)
       IN  procs' = [procs EXCEPT ![p] =
                        IF Exists(fs, AncestorAt(me.path, me.depth))
                        THEN IF me.depth = last
                             THEN [me EXCEPT !.pc = "mkdir"]
                             ELSE [me EXCEPT !.pc = "makedirs_mkdir",
                                             !.depth = me.depth + 1]
                        ELSE IF me.depth = 1
                             THEN [me EXCEPT !.pc = "makedirs_mkdir"]
                             ELSE [me EXCEPT !.depth = me.depth - 1]]
    /\ UNCHANGED <<fs, fs0, dir_calls, inf_vars, train_vars>>

\* os.makedirs: the mkdir of a directory above the target, made by the
\* nested makedirs(head) call; its FileExistsError is passed over.
ProcMakedirsMkdir(p) ==
    /\ procs[p].pc = "makedirs_mkdir"
    /\ LET me == procs[p]
       IN  /\ fs' = Mkdir(fs, AncestorAt(me.path, me.depth)).fs
           /\ procs' = [procs EXCEPT ![p] =
                           IF me.depth = Len(me.path.out)
                           THEN [me EXCEPT !.pc = "mkdir"]
                           ELSE [me EXCEPT !.depth = me.depth + 1]]
    /\ UNCHANGED <<fs0, dir_calls, inf_vars, train_vars>>

\* os.makedirs, last part: mkdir of the target; then return, or the error.
ProcMkdir(p) ==
    /\ procs[p].pc = "mkdir"
    /\ LET made == Mkdir(fs, procs[p].path)
       IN  /\ fs' = made.fs
           /\ procs' = [procs EXCEPT ![p].pc =
                           IF made.ok THEN "returned" ELSE "raised"]
    /\ UNCHANGED <<fs0, dir_calls, inf_vars, train_vars>>

NextRace ==
    \E p \in Procs :
        \/ ProcExists(p)
        \/ ProcWhile(p)
        \/ ProcMakedirsExists(p)
        \/ ProcMakedirsMkdir(p)
        \/ ProcMkdir(p)

SpecRace == InitRace /\ [][NextRace]_vars

(* C33: when two processes run _prepare_output_directory at the same time  *)
(* for the same directories, under every interleaving of their existence   *)
(* checks and directory creations they never both return the same          *)
(* directory: they return different directories, each of which exists, or  *)
(* one of them fails with an error.                                        *)
C33_ConcurrentCallsNeverShareADirectory ==
    \A p, q \in Procs :
        /\ procs[p].pc = "returned" => procs[p].path \in fs
        /\ (p # q /\ procs[p].pc = "returned" /\ procs[q].pc = "returned")
              => procs[p].path # procs[q].path

\* Both found the name free; one created it and the other's mkdir failed.
C33_Witness ==
    /\ procs[1].pc = "returned"
    /\ procs[2].pc = "raised"
    /\ procs[1].path = procs[2].path
    /\ procs[1].path \notin fs0

----------------------------------------------------------------------------
(* The preview and the stage.                                              *)

(* C34: at a StyleGAN epoch end the fixed-seed preview is generated with   *)
(* alpha = 1.0 at the stage that was trained during that epoch, and the    *)
(* stage counter is advanced only afterwards; the epoch end leaves the     *)
(* module's alpha as it was, and the stage index changes only by the       *)
(* advance that follows the preview, one stage at most and only when the   *)
(* stage's epochs are done.                                                *)
C34_PreviewAtTrainedStageFullAlpha ==
    [][(arch = "stylegan" /\ EpochEnds) =>
        /\ preview'.made =>
               /\ preview'.alpha = <<1, 1>>
               /\ preview'.stage = current_step
               /\ preview'.epoch = current_epoch
        /\ alpha' = alpha
        /\ current_step' \in {current_step, current_step + 1}
        /\ current_step' = current_step + 1 <=>
               current_epoch_in_progressive_epoch + 1
                   >= tcfg.progressive_epochs[current_step + 1]]_vars

\* A preview made at stage 0 while alpha was still below 1.0 (the epoch
\* had a skipped batch), after which the stage counter went to 1.
C34_Witness ==
    /\ arch = "stylegan"
    /\ preview.made
    /\ preview.stage = 0 /\ preview.alpha = <<1, 1>>
    /\ current_step = 1
    /\ current_epoch = preview.epoch + 1
    /\ alpha.value # One

====
